---- MODULE Spec2Model ----
(***************************************************************************)
(* Model of lingvo/tasks/asr/decoder.py: the step-by-step attention        *)
(* decoder (AsrDecoderBase / AsrDecoder).                                  *)
(*                                                                         *)
(* Tensors are symbolic.  A vector of one example is a sequence of blocks  *)
(* [w |-> width, v |-> term]; tf.concat along the last axis concatenates   *)
(* block sequences and tf.split cuts them.  A term is a tuple whose head   *)
(* is a tag naming the collaborator that produced it (rnn cell, attention, *)
(* embedding, softmax) followed by its arguments, so two tensors are equal *)
(* exactly when they were computed the same way from the same inputs.      *)
(* A tensor with a batch dimension is a function over 1..bs, bs the number *)
(* of examples (training) or hypotheses (beam search).                     *)
(* Probabilities are exact fractions [n |-> numerator, d |-> denominator]. *)
(* An optional value is <<>> (None) or <<x>>.                              *)
(***************************************************************************)
EXTENDS Integers, Sequences, FiniteSets, Bags, TLC

\* ------------------------------------------------------------------ bounds
\* Number of examples in a batch (dec_bs).
BatchSize == 2
\* Longest target sequence (max_seq_length).
MaxSeqLen == 2
\* Number of token classes; ids are 1..VocabSize.
VocabSize == 2
\* Largest rnn_layers.
MaxLayers == 3
\* min_ground_truth_prob is a multiple of 1/ProbDen.
ProbDen == 2
\* The uniform draw of scheduled sampling is a multiple of 1/UniformDen.
UniformDen == 2
\* Largest global step, min_prob_step and prob_decay_start_step.
MaxStep == 3
\* Number of source frames (the width of atten_probs).
SrcLen == 2
\* Largest num_hyps_per_beam.
MaxHyps == 2
\* The steps of a beam-search decode.
MaxBeamSteps == 3
\* A loss weight of p.logit_types is a multiple of 1/WeightDen.
WeightDen == 2

\* ------------------------------------------------------- program constants
\* p.rnn_cell_dim, p.source_dim (the attention context width when
\* p.atten_context_dim is 0) and p.emb_dim, at their defaults.
RnnCellDim == 256
SourceDim == 512
EmbDim == 96

Batch == 1..BatchSize
Vocab == 1..VocabSize
None == <<>>
Some(x) == <<x>>

\* ------------------------------------------------------------------ state
VARIABLES
  p,                        \* self.params
  pc,                       \* where the decoder object / the current call is
  raised,                   \* the exception that ended construction or a call
  global_step,              \* py_utils.GetOrCreateGlobalStep(), externally owned
  targets,                  \* the target batch: ids, labels, weights, paddings
  heap,                     \* the misc_states NestedMap objects, by address
  packed_src,               \* what _InitAttention returned for this pass
  time,                     \* loop variable of ComputePredictionsDynamic
  decoder_step_state,       \* the carried DecoderStepState
  old_decoder_step_state,   \* the state the last step was given
  target_embs,              \* embeddings of targets.ids after dropout
  seq_out_tas,              \* SequenceOutTensorArrays
  state0,                   \* state0 of ComputePredictionsFunctional
  lm_output,                \* lm_output of ComputePredictionsFunctional
  accumulated_states,       \* what recurrent.Recurrent has accumulated
  predictions,              \* what ComputePredictions returned
  other_predictions,        \* what the other unrolling returned on these inputs
  post_step_logits,         \* the logits argument of a direct call of
                            \* PostStepDecoderStateUpdate
  cur_target_info,          \* what TargetsToBeFedAtCurrentDecodeStep returned
                            \* in the last iteration of the graph loop
  multinomial_logits,       \* the logits tf.multinomial last sampled from
  atten_inits,              \* what each call of _InitAttention in this pass
                            \* returned, in call order
  use_tpu,                  \* py_utils.use_tpu()
  metrics,                  \* what ComputeMetricsAndPerSequenceLoss returned
  num_hyps_per_beam,        \* the hypotheses per beam of BeamSearchDecode
  step_ids,                 \* the token ids the driver feeds the next pre-step
  bs_states,                \* the decoder state the beam-search driver holds
  bs_results,               \* the results the last callback returned
  returned_states,          \* the state the last init or pre-step callback
                            \* returned
  beam_steps                \* the beam-search steps completed

vars == <<p, pc, raised, global_step, targets, heap, packed_src, time,
          decoder_step_state, old_decoder_step_state, target_embs,
          seq_out_tas, state0, lm_output, accumulated_states,
          predictions, other_predictions, post_step_logits, cur_target_info,
          multinomial_logits, atten_inits, use_tpu, metrics,
          num_hyps_per_beam, step_ids, bs_states, bs_results,
          returned_states, beam_steps>>

\* What the beam-search driver and the callbacks it calls assign.
beam_search == <<step_ids, bs_states, bs_results, returned_states, beam_steps>>

\* What a training pass assigns, apart from the heap and the packed source.
training == <<time, decoder_step_state, old_decoder_step_state, target_embs,
              seq_out_tas, state0, lm_output, accumulated_states,
              predictions, multinomial_logits>>

\* What no method of the decoder assigns.
fixed == <<p, global_step, targets, other_predictions, post_step_logits,
           use_tpu, num_hyps_per_beam>>

\* ----------------------------------------------------------------- tensors
Vec(w, v) == << [w |-> w, v |-> v] >>

RECURSIVE Width(_)
Width(x) == IF x = <<>> THEN 0 ELSE Head(x).w + Width(Tail(x))

\* tf.concat([x, y], 1) of one example.
Concat(x, y) == x \o y

\* The leading blocks of x that make up width w.
RECURSIVE Leading(_, _)
Leading(x, w) ==
  IF w <= 0 \/ x = <<>> THEN <<>>
  ELSE <<Head(x)>> \o Leading(Tail(x), w - Head(x).w)

\* The first part of tf.split(x, [w1, w2], axis=-1).
SplitFirst(x, w1, w2) == Leading(x, w1)

\* x + y on two vectors of the same width.
Add(x, y) == Vec(Width(x), <<"add", x, y>>)

\* tf.zeros([bs, w]) for one example.
Zeros(w) == Vec(w, <<"zeros">>)

\* --------------------------------------------------------- configuration
\* Scheduled sampling is enabled: self._max_label_prob > 0.
MaxLabelProbPositive(q) == ProbDen - q.min_ground_truth_prob > 0

\* The interval as it would be if it counted both of its ends: a decoder with
\* min_prob_step = prob_decay_start_step would be constructed.
DecayIntervalBothEnds(q) == q.min_prob_step - q.prob_decay_start_step + 1

DecayInterval(q) == q.min_prob_step - q.prob_decay_start_step

\* _GetAttenContextDim with the NullContextualizer (GetContextDim() = 0).
GetAttenContextDim == SourceDim + 0

\* p.softmax.input_dim as __init__ sets it.
SoftmaxInputDim(q) ==
  IF q.softmax_uses_attention THEN RnnCellDim + GetAttenContextDim
  ELSE RnnCellDim

\* ------------------------------------------------------------ collaborators
\* self.emb.EmbLookup(theta.emb, id) for one example.
EmbLookup(id) == Vec(EmbDim, <<"emb", id>>)

\* self.rnn_cell[i].zero_state(bs) for one example.
RnnCellZeroState(i) == [m |-> Zeros(RnnCellDim)]

\* self.rnn_cell[i].FProp(theta, state0, NestedMap(act=act, padding=padding))
\* for one example.
RnnCellFProp(i, cell_state0, act, padding) ==
  [m |-> Vec(RnnCellDim, <<"rnn_cell", i, cell_state0.m, act, padding>>)]

\* self.rnn_cell[i].GetOutput(state).
GetOutput(state) == state.m

\* self.atten.InitForSourcePacked(theta.atten, source_encs, source_encs,
\* source_paddings) for example b.
InitForSourcePacked(b) == <<"packed_src", b>>

\* The packed source the attention reads for example or hypothesis h: with
\* more hypotheses than source examples, hypothesis h is one of source
\* example ((h - 1) mod batch) + 1.
SourceOf(packed, h) == packed[((h - 1) % Cardinality(DOMAIN packed)) + 1]

\* self.atten.ZeroAttentionState(source_length, bs) for one example.
ZeroAttentionState == <<"zero_atten_state">>

\* self.atten.ComputeContextVectorWithSource(theta.atten, packed, query,
\* attention_state, step_state=step_state) for one example.
ComputeContextVectorWithSource(packed, query, attention_state, step_state) ==
  LET a == <<packed, query, attention_state, step_state>>
  IN  [context |-> Vec(SourceDim, <<"atten_context", a>>),
       probs   |-> Vec(SrcLen, <<"atten_probs", a>>),
       states  |-> <<"atten_states", a>>]

\* NullContextualizer.ZeroAttention and QueryAttention return the context
\* they are given.
ZeroAttention(context) == context
QueryAttention(context) == context

\* self.fusion.  With q.fusion = "NullFusion" (the default): zero_state is an
\* empty NestedMap, FPropLm returns no LM output, FuseEmb, FuseOutput and
\* ComputeLogitsWithLM return their input.  With q.fusion = "LmFusion", a
\* fusion module with a language model: every operation is a function of its
\* arguments, per example, that keeps the width of what it fuses and passes
\* on a new fusion state.
FusionZeroState(q, bs) ==
  IF q.fusion = "NullFusion" THEN <<>>
  ELSE [b \in 1..bs |-> <<"lm_zero_state">>]
FPropLm(q, fusion_states, ids, paddings) ==
  IF q.fusion = "NullFusion"
  THEN [lm_output |-> None, fusion_states |-> fusion_states]
  ELSE [lm_output |->
          [b \in DOMAIN ids |->
             <<"lm_output", fusion_states[b], ids[b], paddings[b]>>],
        fusion_states |->
          [b \in DOMAIN ids |->
             <<"lm_state", fusion_states[b], ids[b], paddings[b]>>]]
FuseEmb(q, fusion_states, lm_out, emb) ==
  IF q.fusion = "NullFusion"
  THEN [emb |-> emb, fusion_states |-> fusion_states]
  ELSE [emb |->
          [b \in DOMAIN emb |->
             Vec(Width(emb[b]), <<"fused_emb", lm_out[b], emb[b]>>)],
        fusion_states |->
          [b \in DOMAIN emb |-> <<"fuse_emb_state", fusion_states[b]>>]]
FuseOutput(q, fusion_states, lm_out, step_outs) ==
  IF q.fusion = "NullFusion"
  THEN [step_outs |-> step_outs, fusion_states |-> fusion_states]
  ELSE [step_outs |->
          [b \in DOMAIN step_outs |->
             Vec(Width(step_outs[b]),
                 <<"fused_output", lm_out[b], step_outs[b]>>)],
        fusion_states |->
          [b \in DOMAIN step_outs |->
             <<"fuse_output_state", fusion_states[b]>>]]
ComputeLogitsWithLM(q, fusion_states, logits) ==
  IF q.fusion = "NullFusion" THEN logits
  ELSE [b \in DOMAIN logits |->
          Vec(Width(logits[b]),
              <<"logits_with_lm", fusion_states[b], logits[b]>>)]

\* self.softmax.FProp(theta.softmax, [inputs], class_weights, class_ids)
\* .logits and self.softmax.XentLoss(...).logits on a [bs, dim] input: a
\* function of the input alone (the class weights and ids enter the loss
\* only).
SoftmaxFProp(inputs) ==
  [b \in DOMAIN inputs |-> Vec(VocabSize, <<"logits", inputs[b]>>)]

\* _ApplyDropout as it would be if it left extra_seed out of the seed.
ApplyDropoutNoExtraSeed(q, x_in, deterministic, extra_seed, step_state, r) ==
  IF ~q.dropout THEN x_in
  ELSE LET seed == q.prng_seed
       IN  IF deterministic
           THEN [b \in DOMAIN x_in |->
                   Vec(Width(x_in[b]),
                       <<"deterministic_dropout", x_in[b],
                         seed + step_state.global_step,
                         seed + step_state.time_step>>)]
           ELSE [b \in DOMAIN x_in |->
                   Vec(Width(x_in[b]), <<"dropout", x_in[b], r>>)]

\* ------------------------------------------------------------- _ApplyDropout
\* p.dropout stands for dropout_prob > 0 and not is_eval.  r is the mask
\* tf.nn.dropout draws when the dropout is not deterministic.
ApplyDropout(q, x_in, deterministic, extra_seed, step_state, r) ==
  IF ~q.dropout THEN x_in
  ELSE LET seed == q.prng_seed + extra_seed
       IN  IF deterministic
           THEN [b \in DOMAIN x_in |->
                   Vec(Width(x_in[b]),
                       <<"deterministic_dropout", x_in[b],
                         seed + step_state.global_step,
                         seed + step_state.time_step>>)]
           ELSE [b \in DOMAIN x_in |->
                   Vec(Width(x_in[b]), <<"dropout", x_in[b], r>>)]

\* ---------------------------------------------------------- SingleDecodeStep
\* The element of a one-element set.  Only({e(x) : x \in {v}}) is e(v) with
\* v computed once.
Only(S) == CHOOSE x \in S : TRUE

\* The loop body as it would be if the layers after the first read the
\* attention context of the previous state.
DecodeLayerOldContext(q, step_state, info, s, new_atten_context, det, r, i, acc) ==
  LET new_rnn_states_i ==
        [b \in DOMAIN acc.rnn_out |->
           RnnCellFProp(i, s.rnn_states[i + 1][b],
                        <<acc.rnn_out[b], s.atten_context[b]>>,
                        info.padding[b])]
      cell_out == [b \in DOMAIN acc.rnn_out |->
                     GetOutput(new_rnn_states_i[b])]
      new_rnn_out == ApplyDropout(q, cell_out, det, i * 1000, step_state, r)
  IN  [rnn_out |->
         IF i + 1 >= q.residual_start /\ q.residual_start > 0
         THEN [b \in DOMAIN acc.rnn_out |->
                 Add(acc.rnn_out[b], new_rnn_out[b])]
         ELSE new_rnn_out,
       new_rnn_states |-> Append(acc.new_rnn_states, new_rnn_states_i)]

\* The loop body as it would be if the output of the final layer were not
\* dropped out.
DecodeLayerFinalNotDropped(q, step_state, info, s, new_atten_context, det, r, i, acc) ==
  LET new_rnn_states_i ==
        [b \in DOMAIN acc.rnn_out |->
           RnnCellFProp(i, s.rnn_states[i + 1][b],
                        <<acc.rnn_out[b], new_atten_context[b]>>,
                        info.padding[b])]
      cell_out == [b \in DOMAIN acc.rnn_out |->
                     GetOutput(new_rnn_states_i[b])]
      new_rnn_out == IF i + 1 = q.rnn_layers THEN cell_out
                     ELSE ApplyDropout(q, cell_out, det, i * 1000,
                                       step_state, r)
  IN  [rnn_out |->
         IF i + 1 >= q.residual_start /\ q.residual_start > 0
         THEN [b \in DOMAIN acc.rnn_out |->
                 Add(acc.rnn_out[b], new_rnn_out[b])]
         ELSE new_rnn_out,
       new_rnn_states |-> Append(acc.new_rnn_states, new_rnn_states_i)]

\* The loop body as it would be if residual connections started at the
\* layer after residual_start.
DecodeLayerResidualAfterStart(q, step_state, info, s, new_atten_context, det, r, i, acc) ==
  LET new_rnn_states_i ==
        [b \in DOMAIN acc.rnn_out |->
           RnnCellFProp(i, s.rnn_states[i + 1][b],
                        <<acc.rnn_out[b], new_atten_context[b]>>,
                        info.padding[b])]
      cell_out == [b \in DOMAIN acc.rnn_out |->
                     GetOutput(new_rnn_states_i[b])]
      new_rnn_out == ApplyDropout(q, cell_out, det, i * 1000, step_state, r)
  IN  [rnn_out |->
         IF i + 1 > q.residual_start /\ q.residual_start > 0
         THEN [b \in DOMAIN acc.rnn_out |->
                 Add(acc.rnn_out[b], new_rnn_out[b])]
         ELSE new_rnn_out,
       new_rnn_states |-> Append(acc.new_rnn_states, new_rnn_states_i)]

\* The loop body as it would be if a residual layer added its cell output
\* before the dropout.
DecodeLayerAddsRaw(q, step_state, info, s, new_atten_context, det, r, i, acc) ==
  LET new_rnn_states_i ==
        [b \in DOMAIN acc.rnn_out |->
           RnnCellFProp(i, s.rnn_states[i + 1][b],
                        <<acc.rnn_out[b], new_atten_context[b]>>,
                        info.padding[b])]
      cell_out == [b \in DOMAIN acc.rnn_out |->
                     GetOutput(new_rnn_states_i[b])]
      new_rnn_out == ApplyDropout(q, cell_out, det, i * 1000, step_state, r)
  IN  [rnn_out |->
         IF i + 1 >= q.residual_start /\ q.residual_start > 0
         THEN [b \in DOMAIN acc.rnn_out |->
                 Add(acc.rnn_out[b], cell_out[b])]
         ELSE new_rnn_out,
       new_rnn_states |-> Append(acc.new_rnn_states, new_rnn_states_i)]

\* The loop body as it would be if it compared residual_start with the
\* index i of the layer, counted from 0.
DecodeLayerResidualByIndex(q, step_state, info, s, new_atten_context, det, r, i, acc) ==
  LET new_rnn_states_i ==
        [b \in DOMAIN acc.rnn_out |->
           RnnCellFProp(i, s.rnn_states[i + 1][b],
                        <<acc.rnn_out[b], new_atten_context[b]>>,
                        info.padding[b])]
      cell_out == [b \in DOMAIN acc.rnn_out |->
                     GetOutput(new_rnn_states_i[b])]
      new_rnn_out == ApplyDropout(q, cell_out, det, i * 1000, step_state, r)
  IN  [rnn_out |->
         IF i >= q.residual_start /\ q.residual_start > 0
         THEN [b \in DOMAIN acc.rnn_out |->
                 Add(acc.rnn_out[b], new_rnn_out[b])]
         ELSE new_rnn_out,
       new_rnn_states |-> Append(acc.new_rnn_states, new_rnn_states_i)]

\* One pass of the loop over self.rnn_cell[1:], for layer i: acc holds
\* rnn_out and new_rnn_states before it, the result holds them after it.
DecodeLayer(q, step_state, info, s, new_atten_context, det, r, i, acc) ==
  LET new_rnn_states_i ==
        [b \in DOMAIN acc.rnn_out |->
           RnnCellFProp(i, s.rnn_states[i + 1][b],
                        <<acc.rnn_out[b], new_atten_context[b]>>,
                        info.padding[b])]
      cell_out == [b \in DOMAIN acc.rnn_out |->
                     GetOutput(new_rnn_states_i[b])]
      new_rnn_out == ApplyDropout(q, cell_out, det, i * 1000, step_state, r)
  IN  [rnn_out |->
         IF i + 1 >= q.residual_start /\ q.residual_start > 0
         THEN [b \in DOMAIN acc.rnn_out |->
                 Add(acc.rnn_out[b], new_rnn_out[b])]
         ELSE new_rnn_out,
       new_rnn_states |-> Append(acc.new_rnn_states, new_rnn_states_i)]

\* The loop over self.rnn_cell[1:], from layer i on.
RECURSIVE DecodeLayers(_, _, _, _, _, _, _, _, _)
DecodeLayers(q, step_state, info, s, new_atten_context, det, r, i, acc) ==
  IF i >= q.rnn_layers THEN acc
  ELSE Only({ DecodeLayers(q, step_state, info, s, new_atten_context, det, r,
                           i + 1, next)
              : next \in { DecodeLayer(q, step_state, info, s,
                                       new_atten_context, det, r, i, acc) } })

\* SingleDecodeStep as it would be if it advanced time_step itself, in the
\* misc_states object it was given.
SingleDecodeStepAdvancesTime(q, h, packed, info, s, det, r) ==
  Only({ Only({ Only({
    [step_out |-> [b \in DOMAIN info.emb |->
                     Concat(out.rnn_out[b], QueryAttention(att[b].context))],
     state |-> [rnn_states    |-> out.new_rnn_states,
                atten_context |-> [b \in DOMAIN info.emb |->
                                     QueryAttention(att[b].context)],
                atten_probs   |-> [b \in DOMAIN info.emb |-> att[b].probs],
                atten_states  |-> [b \in DOMAIN info.emb |-> att[b].states],
                misc_states   |-> s.misc_states],
     heap |-> [h EXCEPT ![s.misc_states].step_state.time_step = @ + 1]]
    \* the layers after the first, on the new attention context
    : out \in { DecodeLayers(
                  q, h[s.misc_states].step_state, info, s,
                  [b \in DOMAIN info.emb |-> QueryAttention(att[b].context)],
                  det, r, 1,
                  [rnn_out |-> [b \in DOMAIN info.emb |->
                                  GetOutput(new_rnn_states_0[b])],
                   new_rnn_states |-> <<new_rnn_states_0>>]) } })
    \* attention, queried by the output of the first layer
    : att \in { [b \in DOMAIN info.emb |->
                   ComputeContextVectorWithSource(
                     SourceOf(packed, b), GetOutput(new_rnn_states_0[b]),
                     s.atten_states[b], h[s.misc_states].step_state)] } })
    \* the first layer, on the embedding and the previous attention context
    : new_rnn_states_0 \in
        { [b \in DOMAIN info.emb |->
             RnnCellFProp(0, s.rnn_states[1][b],
                          <<info.emb[b], s.atten_context[b]>>,
                          info.padding[b])] } })

\* AsrDecoder.SingleDecodeStep.  h is the heap it reads misc_states from; the
\* state it returns holds the misc_states object of the state it was given,
\* and heap is the heap it leaves.
SingleDecodeStep(q, h, packed, info, s, det, r) ==
  Only({ Only({ Only({
    [step_out |-> [b \in DOMAIN info.emb |->
                     Concat(out.rnn_out[b], QueryAttention(att[b].context))],
     state |-> [rnn_states    |-> out.new_rnn_states,
                atten_context |-> [b \in DOMAIN info.emb |->
                                     QueryAttention(att[b].context)],
                atten_probs   |-> [b \in DOMAIN info.emb |-> att[b].probs],
                atten_states  |-> [b \in DOMAIN info.emb |-> att[b].states],
                misc_states   |-> s.misc_states],
     heap |-> h]
    \* the layers after the first, on the new attention context
    : out \in { DecodeLayers(
                  q, h[s.misc_states].step_state, info, s,
                  [b \in DOMAIN info.emb |-> QueryAttention(att[b].context)],
                  det, r, 1,
                  [rnn_out |-> [b \in DOMAIN info.emb |->
                                  GetOutput(new_rnn_states_0[b])],
                   new_rnn_states |-> <<new_rnn_states_0>>]) } })
    \* attention, queried by the output of the first layer
    : att \in { [b \in DOMAIN info.emb |->
                   ComputeContextVectorWithSource(
                     SourceOf(packed, b), GetOutput(new_rnn_states_0[b]),
                     s.atten_states[b], h[s.misc_states].step_state)] } })
    \* the first layer, on the embedding and the previous attention context
    : new_rnn_states_0 \in
        { [b \in DOMAIN info.emb |->
             RnnCellFProp(0, s.rnn_states[1][b],
                          <<info.emb[b], s.atten_context[b]>>,
                          info.padding[b])] } })

\* ------------------------------------------------------------ NestedMap
\* nested_map.f = v on a NestedMap value.
SetField(s, f, v) == [g \in DOMAIN s \cup {f} |-> IF g = f THEN v ELSE s[g]]
\* del nested_map.f left out: the field stays.
KeepField(s, f) == s
\* del nested_map.f on a NestedMap value.
DelField(s, f) == [g \in DOMAIN s \ {f} |-> s[g]]

\* ------------------------------------------------------------ fractions
Frac(n, d) == [n |-> n, d |-> d]
FracLess(a, b) == a.n * b.d < b.n * a.d
FracLeq(a, b) == a.n * b.d <= b.n * a.d
FracEq(a, b) == a.n * b.d = b.n * a.d
FracMaximum(a, b) == IF FracLess(a, b) THEN b ELSE a
FracMinimum(a, b) == IF FracLess(b, a) THEN b ELSE a
\* 1 - a * b
OneMinusProduct(a, b) == Frac(a.d * b.d - a.n * b.n, a.d * b.d)

\* ------------------------------------------------------------ zero state
\* The probability without its upper clamp (tf.minimum(groundtruth_p, 1.0)
\* left out): above 1 before prob_decay_start_step.
GroundtruthPUnclamped(q, step) ==
  LET max_label_prob == Frac(ProbDen - q.min_ground_truth_prob, ProbDen)
      sampling_p == Frac(step - q.prob_decay_start_step, DecayInterval(q))
      groundtruth_p == OneMinusProduct(max_label_prob, sampling_p)
  IN  FracMaximum(groundtruth_p, Frac(q.min_ground_truth_prob, ProbDen))

\* The ground-truth sampling probability MiscZeroState computes at global
\* step `step` (DecayInterval(q) > 0 once the decoder is constructed).
GroundtruthP(q, step) ==
  LET max_label_prob == Frac(ProbDen - q.min_ground_truth_prob, ProbDen)
      sampling_p == Frac(step - q.prob_decay_start_step, DecayInterval(q))
      groundtruth_p == OneMinusProduct(max_label_prob, sampling_p)
      at_least_min == FracMaximum(groundtruth_p,
                                  Frac(q.min_ground_truth_prob, ProbDen))
  IN  FracMinimum(at_least_min, Frac(1, 1))

\* MiscZeroState as it would be if prev_predicted_ids started at the id after
\* the first target id.
MiscZeroStateSeedsNextId(q, step, target_ids) ==
  LET misc_zero_state ==
        [step_state |-> [global_step |-> step, time_step |-> 0]]
  IN  IF MaxLabelProbPositive(q)
      THEN [step_state         |-> misc_zero_state.step_state,
            prev_predicted_ids |-> [b \in DOMAIN target_ids |->
                                      (target_ids[b][1] % VocabSize) + 1],
            groundtruth_p      |-> GroundtruthP(q, step)]
      ELSE misc_zero_state

\* MiscZeroState as it would be if time_step started at 1.
MiscZeroStateFromOne(q, step, target_ids) ==
  LET misc_zero_state ==
        [step_state |-> [global_step |-> step, time_step |-> 1]]
  IN  IF MaxLabelProbPositive(q)
      THEN [step_state         |-> misc_zero_state.step_state,
            prev_predicted_ids |-> [b \in DOMAIN target_ids |->
                                      target_ids[b][1]],
            groundtruth_p      |-> GroundtruthP(q, step)]
      ELSE misc_zero_state

\* AsrDecoderBase.MiscZeroState.
MiscZeroState(q, step, target_ids) ==
  LET misc_zero_state ==
        [step_state |-> [global_step |-> step, time_step |-> 0]]
  IN  IF MaxLabelProbPositive(q)
      THEN [step_state         |-> misc_zero_state.step_state,
            prev_predicted_ids |-> [b \in DOMAIN target_ids |->
                                      target_ids[b][1]],
            groundtruth_p      |-> GroundtruthP(q, step)]
      ELSE misc_zero_state

\* AsrDecoderBase._InitAttention.
InitAttention == [b \in Batch |-> InitForSourcePacked(b)]

\* BaseZeroState as it would be if it called _InitAttention a second time
\* for the zero-query attention.
BaseZeroStatePacksTwice(q, bs, misc_zero_states) ==
  LET step_state == misc_zero_states.step_state
      rnn_states == [i \in 1..q.rnn_layers |->
                       [b \in 1..bs |-> RnnCellZeroState(i - 1)]]
      packed == InitAttention
      att == [b \in 1..bs |->
                ComputeContextVectorWithSource(SourceOf(InitAttention, b),
                                               Zeros(RnnCellDim),
                                               ZeroAttentionState, step_state)]
  IN  [rnn_states    |-> rnn_states,
       atten_context |-> [b \in 1..bs |-> ZeroAttention(att[b].context)],
       atten_probs   |-> [b \in 1..bs |-> att[b].probs],
       atten_states  |-> [b \in 1..bs |-> att[b].states],
       packed_src    |-> packed,
       atten_inits   |-> <<packed, InitAttention>>]

\* AsrDecoderBase.BaseZeroState, for bs examples or hypotheses.
BaseZeroState(q, bs, misc_zero_states) ==
  LET step_state == misc_zero_states.step_state
      rnn_states == [i \in 1..q.rnn_layers |->
                       [b \in 1..bs |-> RnnCellZeroState(i - 1)]]
      packed == InitAttention
      att == [b \in 1..bs |->
                ComputeContextVectorWithSource(SourceOf(packed, b),
                                               Zeros(RnnCellDim),
                                               ZeroAttentionState, step_state)]
  IN  [rnn_states    |-> rnn_states,
       atten_context |-> [b \in 1..bs |-> ZeroAttention(att[b].context)],
       atten_probs   |-> [b \in 1..bs |-> att[b].probs],
       atten_states  |-> [b \in 1..bs |-> att[b].states],
       packed_src    |-> packed,
       atten_inits   |-> <<packed>>]

\* The address DecoderStepZeroState gives the misc_states object it creates.
MiscAddr == 1

\* AsrDecoderBase.DecoderStepZeroState: the zero state, the heap holding its
\* misc_states, the packed source and the calls of _InitAttention made.
DecoderStepZeroState(q, step, target_ids, bs) ==
  Only({ Only({
    [state |-> [rnn_states    |-> base.rnn_states,
                atten_context |-> base.atten_context,
                atten_probs   |-> base.atten_probs,
                atten_states  |-> base.atten_states,
                fusion_states |-> FusionZeroState(q, bs),
                misc_states   |-> MiscAddr],
     heap |-> [a \in {MiscAddr} |-> misc_zero_states],
     packed_src |-> base.packed_src,
     atten_inits |-> base.atten_inits]
    : base \in { BaseZeroState(q, bs, misc_zero_states) } })
    : misc_zero_states \in { MiscZeroState(q, step, target_ids) } })

\* ------------------------------------------- TargetsToBeFedAtCurrentDecodeStep
\* TargetsToBeFedAtCurrentDecodeStep as it would be if it compared the draw
\* with min_ground_truth_prob, the floor of the schedule, instead of the
\* groundtruth_p of the state.
TargetsFedByMinProb(q, h, t, s, tgt, embs, u) ==
  LET target_id == [b \in Batch |-> tgt.ids[b][t + 1]]
      emb == [b \in Batch |-> embs[b][t + 1]]
      misc == h[s.misc_states]
      pick_groundtruth ==
        [b \in Batch |-> FracLess(Frac(u[b], UniformDen),
                                  Frac(q.min_ground_truth_prob, ProbDen))]
  IN  [id      |-> IF MaxLabelProbPositive(q)
                   THEN [b \in Batch |->
                           IF pick_groundtruth[b] THEN target_id[b]
                           ELSE misc.prev_predicted_ids[b]]
                   ELSE target_id,
       label   |-> [b \in Batch |-> tgt.labels[b][t + 1]],
       weight  |-> [b \in Batch |-> tgt.weights[b][t + 1]],
       emb     |-> IF MaxLabelProbPositive(q)
                   THEN [b \in Batch |->
                           IF pick_groundtruth[b] THEN emb[b]
                           ELSE EmbLookup(misc.prev_predicted_ids[b])]
                   ELSE emb,
       padding |-> [b \in Batch |-> tgt.paddings[b][t + 1]]]

\* TargetsToBeFedAtCurrentDecodeStep as it would be if only the id followed
\* the draw and the embedding were always the ground truth's.
TargetsFedWithTargetEmb(q, h, t, s, tgt, embs, u) ==
  LET target_id == [b \in Batch |-> tgt.ids[b][t + 1]]
      misc == h[s.misc_states]
      pick_groundtruth ==
        [b \in Batch |-> FracLess(Frac(u[b], UniformDen), misc.groundtruth_p)]
  IN  [id      |-> IF MaxLabelProbPositive(q)
                   THEN [b \in Batch |->
                           IF pick_groundtruth[b] THEN target_id[b]
                           ELSE misc.prev_predicted_ids[b]]
                   ELSE target_id,
       label   |-> [b \in Batch |-> tgt.labels[b][t + 1]],
       weight  |-> [b \in Batch |-> tgt.weights[b][t + 1]],
       emb     |-> [b \in Batch |-> embs[b][t + 1]],
       padding |-> [b \in Batch |-> tgt.paddings[b][t + 1]]]

\* t is the time step (from 0), s the state the step is given, u[b] the
\* numerator of the uniform draw of example b.
TargetsToBeFedAtCurrentDecodeStep(q, h, t, s, tgt, embs, u) ==
  LET target_id == [b \in Batch |-> tgt.ids[b][t + 1]]
      emb == [b \in Batch |-> embs[b][t + 1]]
      misc == h[s.misc_states]
      pick_groundtruth ==
        [b \in Batch |-> FracLess(Frac(u[b], UniformDen), misc.groundtruth_p)]
  IN  [id      |-> IF MaxLabelProbPositive(q)
                   THEN [b \in Batch |->
                           IF pick_groundtruth[b] THEN target_id[b]
                           ELSE misc.prev_predicted_ids[b]]
                   ELSE target_id,
       label   |-> [b \in Batch |-> tgt.labels[b][t + 1]],
       weight  |-> [b \in Batch |-> tgt.weights[b][t + 1]],
       emb     |-> IF MaxLabelProbPositive(q)
                   THEN [b \in Batch |->
                           IF pick_groundtruth[b] THEN emb[b]
                           ELSE EmbLookup(misc.prev_predicted_ids[b])]
                   ELSE emb,
       padding |-> [b \in Batch |-> tgt.paddings[b][t + 1]]]

\* AsrDecoderBase.OverrideEmbedding.
OverrideEmbedding(target_info, new_emb) ==
  [id      |-> target_info.id,
   label   |-> target_info.label,
   weight  |-> target_info.weight,
   emb     |-> new_emb,
   padding |-> target_info.padding]

\* -------------------------------------------------- PostStepDecoderStateUpdate
\* PostStepDecoderStateUpdate as it would be if it updated a copy of
\* misc_states (at a new address) and returned a state holding the copy.
PostStepOnCopy(q, h, s, logits, pred_ids) ==
  LET a == s.misc_states
      copy == a + 1
      bumped(m) == [m EXCEPT !.step_state.time_step = @ + 1]
      onto(hh, m) == [x \in DOMAIN hh \cup {copy} |->
                        IF x = copy THEN m ELSE hh[x]]
  IN  IF ~q.use_while_loop_based_unrolling
      THEN IF q.min_ground_truth_prob < ProbDen
           THEN [raised |-> "ValueError", state |-> s, heap |-> h,
                 multinomial_logits |-> None]
           ELSE [raised |-> "none",
                 state |-> SetField(s, "misc_states", copy),
                 heap |-> onto(h, bumped(h[a])),
                 multinomial_logits |-> None]
      ELSE IF logits = None
           THEN [raised |-> "ValueError", state |-> s, heap |-> h,
                 multinomial_logits |-> None]
           ELSE LET sampled ==
                      IF MaxLabelProbPositive(q)
                      THEN [h[a] EXCEPT !.prev_predicted_ids = pred_ids]
                      ELSE h[a]
                IN  [raised |-> "none",
                     state |-> SetField(SetField(s, "logits", logits[1]),
                                        "misc_states", copy),
                     heap |-> onto(h, bumped(sampled)),
                     multinomial_logits |->
                       IF MaxLabelProbPositive(q) THEN logits ELSE None]

\* PostStepDecoderStateUpdate as it would be if it moved groundtruth_p on to
\* min_ground_truth_prob, the end of its schedule, at every step.
PostStepDecaysProb(q, h, s, logits, pred_ids) ==
  LET a == s.misc_states
      bump(hh) == [hh EXCEPT ![a].step_state.time_step = @ + 1]
  IN  IF ~q.use_while_loop_based_unrolling
      THEN IF q.min_ground_truth_prob < ProbDen
           THEN [raised |-> "ValueError", state |-> s, heap |-> h,
                 multinomial_logits |-> None]
           ELSE [raised |-> "none", state |-> s, heap |-> bump(h),
                 multinomial_logits |-> None]
      ELSE IF logits = None
           THEN [raised |-> "ValueError", state |-> s, heap |-> h,
                 multinomial_logits |-> None]
           ELSE LET with_logits == SetField(s, "logits", logits[1])
                    sampled ==
                      IF MaxLabelProbPositive(q)
                      THEN [h EXCEPT ![a].prev_predicted_ids = pred_ids,
                                     ![a].groundtruth_p =
                                       Frac(q.min_ground_truth_prob, ProbDen)]
                      ELSE h
                IN  [raised |-> "none", state |-> with_logits,
                     heap |-> bump(sampled),
                     multinomial_logits |->
                       IF MaxLabelProbPositive(q) THEN logits ELSE None]

\* PostStepDecoderStateUpdate as it would be if it refused scheduled sampling
\* under either unrolling.
PostStepRefusesSampling(q, h, s, logits, pred_ids) ==
  LET a == s.misc_states
      bump(hh) == [hh EXCEPT ![a].step_state.time_step = @ + 1]
  IN  IF q.min_ground_truth_prob < ProbDen
      THEN [raised |-> "ValueError", state |-> s, heap |-> h,
            multinomial_logits |-> None]
      ELSE IF ~q.use_while_loop_based_unrolling
      THEN [raised |-> "none", state |-> s, heap |-> bump(h),
            multinomial_logits |-> None]
      ELSE IF logits = None
      THEN [raised |-> "ValueError", state |-> s, heap |-> h,
            multinomial_logits |-> None]
      ELSE [raised |-> "none", state |-> SetField(s, "logits", logits[1]),
            heap |-> bump(h), multinomial_logits |-> None]

\* logits is None or Some(tensor); pred_ids is what tf.multinomial draws.
\* Returns the exception raised (or "none"), the state returned, the heap and
\* the logits tf.multinomial was given (None when it was not called).
PostStepDecoderStateUpdate(q, h, s, logits, pred_ids) ==
  LET a == s.misc_states
      bump(hh) == [hh EXCEPT ![a].step_state.time_step = @ + 1]
  IN  IF ~q.use_while_loop_based_unrolling
      THEN IF q.min_ground_truth_prob < ProbDen
           THEN [raised |-> "ValueError", state |-> s, heap |-> h,
                 multinomial_logits |-> None]
           ELSE [raised |-> "none", state |-> s, heap |-> bump(h),
                 multinomial_logits |-> None]
      ELSE IF logits = None
           THEN [raised |-> "ValueError", state |-> s, heap |-> h,
                 multinomial_logits |-> None]
           ELSE LET with_logits == SetField(s, "logits", logits[1])
                    sampled ==
                      IF MaxLabelProbPositive(q)
                      THEN [h EXCEPT ![a].prev_predicted_ids = pred_ids]
                      ELSE h
                IN  [raised |-> "none", state |-> with_logits,
                     heap |-> bump(sampled),
                     multinomial_logits |->
                       IF MaxLabelProbPositive(q) THEN logits ELSE None]

\* ------------------------------------------------------------ TensorArray
\* _NewTensorArray: max_seq_length unwritten slots, numbered from 0.
NewTensorArray(max_seq_length) == [i \in 0..(max_seq_length - 1) |-> None]
\* ta.write as it would be if it ignored the index and wrote the first slot.
WriteFirst(ta, i, v) == [ta EXCEPT ![0] = Some(v)]
\* ta.write(i, v)
Write(ta, i, v) == [ta EXCEPT ![i] = Some(v)]
Written(ta) == {i \in DOMAIN ta : ta[i] # None}
\* ta.stack() followed by the transpose to batch-major: [b][t], t from 1.
StackBatchMajor(ta) ==
  [b \in Batch |-> [t \in 1..Cardinality(DOMAIN ta) |-> ta[t - 1][1][b]]]

\* misc_states.Flatten(): the leaves in key order.
FlattenMisc(m) ==
  IF "groundtruth_p" \in DOMAIN m
  THEN <<m.groundtruth_p, m.prev_predicted_ids,
         m.step_state.global_step, m.step_state.time_step>>
  ELSE <<m.step_state.global_step, m.step_state.time_step>>

\* fusion_states.Flatten(): NullFusion keeps no state.
FlattenFusion(f) == <<>>

\* AsrDecoderBase._GetInitialSeqStateTensorArrays.
GetInitialSeqStateTensorArrays(q, max_seq_length, fusion_flat, misc_flat) ==
  [rnn_outs    |-> [i \in 1..q.rnn_layers |-> NewTensorArray(max_seq_length)],
   step_outs   |-> NewTensorArray(max_seq_length),
   atten_probs |-> NewTensorArray(max_seq_length),
   logits      |-> NewTensorArray(max_seq_length),
   fusion      |-> [i \in 1..Len(fusion_flat) |-> NewTensorArray(max_seq_length)],
   misc        |-> [i \in 1..Len(misc_flat) |-> NewTensorArray(max_seq_length)]]

\* AsrDecoderBase._UpdateSequenceOutTensorArrays.
UpdateSequenceOutTensorArrays(h, s, t, step_outs, tas) ==
  LET new_fusion_states_flat == FlattenFusion(s.fusion_states)
      new_misc_states_flat == FlattenMisc(h[s.misc_states])
  IN  [rnn_outs    |-> [i \in 1..Len(tas.rnn_outs) |->
                          Write(tas.rnn_outs[i], t,
                                [b \in Batch |-> s.rnn_states[i][b].m])],
       step_outs   |-> Write(tas.step_outs, t, step_outs),
       atten_probs |-> Write(tas.atten_probs, t, s.atten_probs),
       logits      |-> Write(tas.logits, t, s.logits),
       fusion      |-> [i \in 1..Len(new_fusion_states_flat) |->
                          Write(tas.fusion[i], t, new_fusion_states_flat[i])],
       misc        |-> [i \in 1..Len(new_misc_states_flat) |->
                          Write(tas.misc[i], t, new_misc_states_flat[i])]]

\* AsrDecoderBase._GetPredictionFromSequenceOutTensorArrays.
GetPredictionFromSequenceOutTensorArrays(tas) ==
  [logits    |-> StackBatchMajor(tas.logits),
   attention |-> [probs |-> StackBatchMajor(tas.atten_probs)]]

\* ------------------------------------------------------------ inputs
Masks == {0, 1}
SeqLen(tgt) == Len(tgt.ids[1])

\* The embeddings of targets.ids after self._ApplyDropout(target_embs).
TargetEmbs(q, tgt, r) ==
  [b \in Batch |-> [t \in 1..SeqLen(tgt) |->
     IF q.dropout THEN Vec(EmbDim, <<"dropout", EmbLookup(tgt.ids[b][t]), r>>)
     ELSE EmbLookup(tgt.ids[b][t])]]

\* Target batches of length T: the ids of the first example are any tokens,
\* those of example b are the same tokens rotated by b - 1 classes; labels
\* are the ids moved on by one class; example b is padded after its first
\* T - (b - 1) steps (at least one step is kept).
TargetBatches(T) ==
  { [ids      |-> [b \in Batch |-> [t \in 1..T |->
                     ((row[t] + b - 2) % VocabSize) + 1]],
     labels   |-> [b \in Batch |-> [t \in 1..T |->
                     ((row[t] + b - 1) % VocabSize) + 1]],
     weights  |-> [b \in Batch |-> [t \in 1..T |->
                     IF t > 1 /\ t > T - (b - 1) THEN 0 ELSE 1]],
     paddings |-> [b \in Batch |-> [t \in 1..T |->
                     IF t > 1 /\ t > T - (b - 1) THEN 1 ELSE 0]]]
    : row \in [1..T -> Vocab] }

\* ------------------------------------------------------------ construction
\* __init__ as it would be if it also refused scheduled sampling together with
\* functional unrolling.
ConstructionErrorOnSampling(q) ==
  IF q.packed_input THEN "AssertionError"
  ELSE IF DecayInterval(q) <= 0 THEN "ValueError"
  ELSE IF MaxLabelProbPositive(q) /\ ~q.use_while_loop_based_unrolling
  THEN "ValueError"
  ELSE IF q.label_smoothing_mismatch THEN "ValueError: label_smoothing"
  ELSE "none"

\* The exception AsrDecoderBase.__init__ ends with on params q, or "none":
\* the assertion on packed_input, the ValueError on the decay interval, the
\* ValueError on label_smoothing.num_classes (told apart by its message).
ConstructionError(q) ==
  IF q.packed_input THEN "AssertionError"
  ELSE IF DecayInterval(q) <= 0 THEN "ValueError"
  ELSE IF q.label_smoothing_mismatch THEN "ValueError: label_smoothing"
  ELSE "none"

\* AsrDecoderBase.__init__.
Construct ==
  /\ pc = "params"
  /\ raised' = ConstructionError(p)
  /\ pc' = IF ConstructionError(p) = "none" THEN "constructed"
           ELSE "not_constructed"
  /\ UNCHANGED <<fixed, beam_search, metrics, heap, packed_src, time,
                 decoder_step_state, old_decoder_step_state, target_embs,
                 seq_out_tas, state0, lm_output, accumulated_states,
                 predictions, cur_target_info, multinomial_logits,
                 atten_inits>>

\* ------------------------------------------------ ComputePredictionsDynamic
\* ComputePredictions with use_while_loop_based_unrolling: the part of
\* ComputePredictionsDynamic before tf.while_loop.
ComputePredictionsDynamic ==
  /\ pc = "constructed"
  /\ targets # None
  /\ p.use_while_loop_based_unrolling
  /\ \E r \in (IF p.dropout THEN Masks ELSE {0}),
        zero \in {DecoderStepZeroState(p, global_step, targets.ids,
                                       BatchSize)} :
       /\ target_embs' = TargetEmbs(p, targets, r)
       /\ time' = 0
       /\ decoder_step_state' = zero.state
       /\ heap' = zero.heap
       /\ packed_src' = zero.packed_src
       /\ atten_inits' = zero.atten_inits
       /\ seq_out_tas' =
            GetInitialSeqStateTensorArrays(
              p, SeqLen(targets), FlattenFusion(zero.state.fusion_states),
              FlattenMisc(zero.heap[zero.state.misc_states]))
  /\ pc' = "dynamic"
  /\ UNCHANGED <<fixed, beam_search, metrics, raised, old_decoder_step_state,
                 state0, lm_output, accumulated_states, predictions,
                 cur_target_info, multinomial_logits>>

\* _LoopContinue.
LoopContinue == time < SeqLen(targets)

\* _LoopBody as it would be if the logits were adjusted by the LM right after
\* the softmax, before PostStepDecoderStateUpdate.
DecodeAndSoftmaxAdjusted(q, h, packed, target_info, s, fusion_states, lm_out, r) ==
  Only({ Only({
    [step_outs |-> out.step_outs,
     state |-> SetField(step.state, "fusion_states", out.fusion_states),
     heap |-> step.heap,
     xent_loss |-> [logits |-> ComputeLogitsWithLM(
                                 q, out.fusion_states,
                                 SoftmaxFProp(out.step_outs))]]
    : out \in { FuseOutput(q, fusion_states, lm_out, step.step_out) } })
    : step \in { SingleDecodeStep(q, h, packed, target_info, s, FALSE,
                                  r) } })

\* The state and the step outputs of _LoopBody once the softmax has run:
\* SingleDecodeStep on the fused embedding, FuseOutput, softmax.FProp.
DecodeAndSoftmax(q, h, packed, target_info, s, fusion_states, lm_out, r) ==
  Only({ Only({
    [step_outs |-> out.step_outs,
     state |-> SetField(step.state, "fusion_states", out.fusion_states),
     heap |-> step.heap,
     xent_loss |-> [logits |-> SoftmaxFProp(out.step_outs)]]
    : out \in { FuseOutput(q, fusion_states, lm_out, step.step_out) } })
    : step \in { SingleDecodeStep(q, h, packed, target_info, s, FALSE,
                                  r) } })

\* One iteration of tf.while_loop(_LoopContinue, _LoopBody, ...): _LoopBody on
\* (time, decoder_step_state, seq_out_tas), with the uniform draws u, the
\* sampled ids pred_ids and the dropout mask r.
LoopIteration ==
  /\ pc = "dynamic"
  /\ LoopContinue
  /\ \E u \in (IF MaxLabelProbPositive(p) THEN [Batch -> 0..(UniformDen - 1)]
               ELSE {[b \in Batch |-> 0]}),
        pred_ids \in (IF MaxLabelProbPositive(p) THEN [Batch -> Vocab]
                      ELSE {[b \in Batch |-> 1]}),
        r \in (IF p.dropout /\ p.rnn_layers > 1 THEN Masks ELSE {0}) :
     \E cur0 \in {TargetsToBeFedAtCurrentDecodeStep(
                    p, heap, time, decoder_step_state, targets, target_embs,
                    u)} :
     \E lm \in {FPropLm(p, decoder_step_state.fusion_states, cur0.id,
                        cur0.padding)} :
     \E fused \in {FuseEmb(p, lm.fusion_states, lm.lm_output, cur0.emb)} :
     \E dec \in {DecodeAndSoftmax(p, heap, packed_src,
                                  OverrideEmbedding(cur0, fused.emb),
                                  decoder_step_state, fused.fusion_states,
                                  lm.lm_output, r)} :
     \E post \in {PostStepDecoderStateUpdate(
                    p, dec.heap, dec.state, Some(dec.xent_loss.logits),
                    pred_ids)} :
       IF post.raised # "none"
       THEN /\ raised' = post.raised
            /\ pc' = "raised"
            /\ UNCHANGED <<time, decoder_step_state, old_decoder_step_state,
                           heap, seq_out_tas, cur_target_info,
                           multinomial_logits>>
       ELSE \E with_lm \in {SetField(post.state, "logits",
                                     ComputeLogitsWithLM(
                                       p, post.state.fusion_states,
                                       post.state.logits))} :
              /\ seq_out_tas' =
                   UpdateSequenceOutTensorArrays(post.heap, with_lm, time,
                                                 dec.step_outs, seq_out_tas)
              /\ decoder_step_state' = DelField(with_lm, "logits")
              /\ old_decoder_step_state' = decoder_step_state
              /\ heap' = post.heap
              /\ time' = time + 1
              /\ cur_target_info' = cur0
              /\ multinomial_logits' = post.multinomial_logits
              /\ UNCHANGED <<raised, pc>>
  /\ UNCHANGED <<fixed, beam_search, metrics, packed_src, target_embs,
                 state0, lm_output, accumulated_states, predictions,
                 atten_inits>>

\* The end of tf.while_loop and the return of ComputePredictionsDynamic.
LoopExit ==
  /\ pc = "dynamic"
  /\ ~LoopContinue
  /\ predictions' = GetPredictionFromSequenceOutTensorArrays(seq_out_tas)
  /\ pc' = "done"
  /\ UNCHANGED <<fixed, beam_search, metrics, raised, heap, packed_src, time,
                 decoder_step_state, old_decoder_step_state, target_embs,
                 seq_out_tas, state0, lm_output, accumulated_states,
                 cur_target_info, multinomial_logits, atten_inits>>

\* --------------------------------------------- ComputePredictionsFunctional
\* inputs of ComputePredictionsFunctional at scan position t (from 0).
InputsAt(tgt, embs, t) ==
  [id      |-> [b \in Batch |-> tgt.ids[b][t + 1]],
   label   |-> [b \in Batch |-> tgt.labels[b][t + 1]],
   weight  |-> [b \in Batch |-> tgt.weights[b][t + 1]],
   emb     |-> [b \in Batch |-> embs[b][t + 1]],
   padding |-> [b \in Batch |-> tgt.paddings[b][t + 1]]]

\* ComputePredictionsFunctional without its opening assertion.
NothingRefused(q) == FALSE

\* The assertion ComputePredictionsFunctional opens with fails on params q.
ScheduledSamplingRefused(q) == q.min_ground_truth_prob # ProbDen

\* ComputePredictions without use_while_loop_based_unrolling: the part of
\* ComputePredictionsFunctional before recurrent.Recurrent.
ComputePredictionsFunctional ==
  /\ pc = "constructed"
  /\ targets # None
  /\ ~p.use_while_loop_based_unrolling
  /\ IF ScheduledSamplingRefused(p)
     THEN /\ raised' = "AssertionError"
          /\ pc' = "raised"
          /\ UNCHANGED <<heap, packed_src, decoder_step_state, target_embs,
                         state0, lm_output, accumulated_states, atten_inits>>
     ELSE \E r \in (IF p.dropout THEN Masks ELSE {0}),
             zero \in {DecoderStepZeroState(p, global_step, targets.ids,
                                            BatchSize)} :
       LET out_dim == RnnCellDim + GetAttenContextDim
           with_outs == SetField(zero.state, "step_outs",
                                 [b \in Batch |-> Zeros(out_dim)])
           embs == TargetEmbs(p, targets, r)
           lm == FPropLm(p, with_outs.fusion_states, targets.ids,
                         targets.paddings)
           fused == FuseEmb(p, lm.fusion_states, lm.lm_output, embs)
           s0 == SetField(with_outs, "fusion_states", fused.fusion_states)
           state0_no_fusion == DelField(s0, "fusion_states")
       IN  /\ raised' = "none"
           /\ pc' = "functional"
           /\ heap' = zero.heap
           /\ packed_src' = zero.packed_src
           /\ atten_inits' = zero.atten_inits
           /\ target_embs' = fused.emb
           /\ state0' = s0
           /\ lm_output' = lm.lm_output
           /\ decoder_step_state' = state0_no_fusion
           /\ accumulated_states' = <<>>
  /\ UNCHANGED <<fixed, beam_search, metrics, time, old_decoder_step_state,
                 seq_out_tas, predictions, cur_target_info,
                 multinomial_logits>>

\* RnnStep of ComputePredictionsFunctional, on state s in heap h.
RnnStep(q, h, packed, inputs, s) ==
  Only({ PostStepDecoderStateUpdate(
           q, step.heap, SetField(step.state, "step_outs", step.step_out),
           Some(inputs.label), inputs.label)
         : step \in { SingleDecodeStep(q, h, packed, inputs, s, TRUE, 0) } })

\* The values of a state: its misc_states object read from the heap.
Values(s, h) == SetField(s, "misc_states", h[s.misc_states])

\* One step of recurrent.Recurrent(recurrent_theta, state0_no_fusion, inputs,
\* RnnStep): the state RnnStep returns is carried on and accumulated.
RecurrentStep ==
  /\ pc = "functional"
  /\ Len(accumulated_states) < SeqLen(targets)
  /\ \E inputs \in {InputsAt(targets, target_embs, Len(accumulated_states))} :
     \E post \in {RnnStep(p, heap, packed_src, inputs, decoder_step_state)} :
         /\ raised' = post.raised
         /\ pc' = IF post.raised = "none" THEN "functional" ELSE "raised"
         /\ heap' = post.heap
         /\ decoder_step_state' = post.state
         /\ old_decoder_step_state' = decoder_step_state
         /\ accumulated_states' =
              IF post.raised = "none"
              THEN Append(accumulated_states, Values(post.state, post.heap))
              ELSE accumulated_states
  /\ UNCHANGED <<fixed, beam_search, metrics, packed_src, time, target_embs,
                 seq_out_tas, state0, lm_output, predictions,
                 cur_target_info, multinomial_logits, atten_inits>>

\* The part of ComputePredictionsFunctional after recurrent.Recurrent.
FunctionalFinish ==
  /\ pc = "functional"
  /\ Len(accumulated_states) = SeqLen(targets)
  /\ LET T == SeqLen(targets)
         atten_context_dim == GetAttenContextDim
         step_out ==
           [t \in 1..T |-> [b \in Batch |->
              IF ~p.softmax_uses_attention
              THEN SplitFirst(accumulated_states[t].step_outs[b],
                              RnnCellDim, atten_context_dim)
              ELSE accumulated_states[t].step_outs[b]]]
         fused == FuseOutput(p, state0.fusion_states, lm_output, step_out)
         seq_logits == [t \in 1..T |-> SoftmaxFProp(fused.step_outs[t])]
         adjusted_logits ==
           ComputeLogitsWithLM(p, fused.fusion_states, seq_logits)
     IN  /\ state0' = SetField(state0, "fusion_states", fused.fusion_states)
         /\ predictions' =
              [logits_without_bias |->
                 [b \in Batch |-> [t \in 1..T |-> seq_logits[t][b]]],
               logits |->
                 [b \in Batch |-> [t \in 1..T |-> adjusted_logits[t][b]]],
               attention |->
                 [probs |-> [b \in Batch |-> [t \in 1..T |->
                               accumulated_states[t].atten_probs[b]]]]]
  /\ pc' = "done"
  /\ UNCHANGED <<fixed, beam_search, metrics, raised, heap, packed_src, time,
                 decoder_step_state, old_decoder_step_state, target_embs,
                 seq_out_tas, lm_output, accumulated_states,
                 cur_target_info, multinomial_logits, atten_inits>>

\* ------------------------------------------------------------ metrics
\* A scalar the metrics are made of is a term; a weighted sum of scalars is
\* the bag of its terms, c copies of x standing for (c / WeightDen) * x.
\* scale * x:
Scaled(scale, x) == IF scale = 0 THEN EmptyBag ELSE [e \in {x} |-> scale]

\* 1.0 * x, a scalar as a weighted sum.
Unscaled(x) == Scaled(WeightDen, x)

\* AsrDecoderBase._ComputeMetrics as it would be if it reported the
\* per-sequence-average loss under a name of its own.
ComputeMetricsWithSeqAvg(q, tpu, logits, target_labels, target_weights, target_probs) ==
  LET target_weights_sum == <<"reduce_sum", target_weights>>
      target_weights_sum_eps == <<"add_eps", target_weights_sum>>
      per_example_loss ==
        IF target_probs # None
        THEN <<"softmax_cross_entropy", target_probs[1], logits>>
        ELSE <<"sparse_softmax_cross_entropy", target_labels, logits>>
      per_sequence_loss ==
        <<"reduce_sum_over_time", per_example_loss, target_weights>>
      per_token_avg_loss ==
        <<"div", <<"reduce_sum", per_sequence_loss>>, target_weights_sum_eps>>
      loss == IF q.per_token_avg_loss THEN per_token_avg_loss
              ELSE <<"reduce_mean", per_sequence_loss>>
      loss_weight == IF q.per_token_avg_loss THEN target_weights_sum
                     ELSE <<"shape_0", per_sequence_loss>>
  IN  [metrics |->
         [k \in {"loss", "log_pplx", "per_sequence_avg_loss"} |->
            IF k = "loss" THEN <<loss, loss_weight>>
            ELSE IF k = "log_pplx"
            THEN <<per_token_avg_loss, target_weights_sum>>
            ELSE <<<<"reduce_mean", per_sequence_loss>>,
                   <<"shape_0", per_sequence_loss>>>>],
       per_sequence_loss |-> per_sequence_loss]

\* AsrDecoderBase._ComputeMetrics: the metrics, by name, each a (value,
\* normalizer) pair, and the per-sequence loss.
ComputeMetrics(q, tpu, logits, target_labels, target_weights, target_probs) ==
  LET target_weights_sum == <<"reduce_sum", target_weights>>
      target_weights_sum_eps == <<"add_eps", target_weights_sum>>
      accuracy ==
        <<"div", <<"correct_next_preds", logits, target_labels,
                   target_weights>>, target_weights_sum_eps>>
      per_example_loss ==
        IF target_probs # None
        THEN <<"softmax_cross_entropy", target_probs[1], logits>>
        ELSE <<"sparse_softmax_cross_entropy", target_labels, logits>>
      per_sequence_loss ==
        <<"reduce_sum_over_time", per_example_loss, target_weights>>
      per_token_avg_loss ==
        <<"div", <<"reduce_sum", per_sequence_loss>>, target_weights_sum_eps>>
      loss == IF q.per_token_avg_loss THEN per_token_avg_loss
              ELSE <<"reduce_mean", per_sequence_loss>>
      loss_weight == IF q.per_token_avg_loss THEN target_weights_sum
                     ELSE <<"shape_0", per_sequence_loss>>
      names == IF tpu THEN {"loss", "log_pplx"}
               ELSE {"loss", "log_pplx", "fraction_of_correct_next_step_preds"}
  IN  [metrics |->
         [k \in names |->
            IF k = "loss" THEN <<loss, loss_weight>>
            ELSE IF k = "log_pplx"
            THEN <<per_token_avg_loss, target_weights_sum>>
            ELSE <<accuracy, target_weights_sum>>],
       per_sequence_loss |-> per_sequence_loss]

\* AddToMetric as it would be if it left out the scale.
AddToMetricUnscaled(acc, scale, metric) ==
  <<acc[1] (+) Unscaled(metric[1]), acc[2] (+) Unscaled(metric[2])>>

\* AddToMetric of ComputeMetricsAndPerSequenceLoss.
AddToMetric(acc, scale, metric) ==
  <<acc[1] (+) Scaled(scale, metric[1]), acc[2] (+) Scaled(scale, metric[2])>>

\* The entry k/logit_name as it would be if it were scaled by the loss
\* weight.
PerHeadEntryScaled(scale, metric) ==
  <<Scaled(scale, metric[1]), Scaled(scale, metric[2])>>

\* merged_metrics[k + '/' + logit_name] = v: the entry of one head.
PerHeadEntry(scale, metric) == <<Unscaled(metric[1]), Unscaled(metric[2])>>

\* The body of the loop over p.logit_types.iteritems() for the i-th item, on
\* the merged metrics so far: merged_metrics keyed by k (combined) and by
\* <<k, logit_name>> for k/logit_name (per_head).
MergeHead(q, tpu, preds, tgt, i, merged) ==
  LET logit_name == q.logit_types[i].name
      loss_weight == q.logit_types[i].w
  IN  IF logit_name \notin DOMAIN preds
      THEN [merged EXCEPT !.raised = "AttributeError"]
      ELSE Only({
        [raised |-> "none",
         combined |->
           [k \in DOMAIN merged.combined \cup DOMAIN head.metrics |->
              IF k \in DOMAIN head.metrics
              THEN AddToMetric(IF k \in DOMAIN merged.combined
                               THEN merged.combined[k]
                               ELSE <<EmptyBag, EmptyBag>>,
                               loss_weight, head.metrics[k])
              ELSE merged.combined[k]],
         per_head |->
           [e \in DOMAIN merged.per_head
                    \cup {<<k, logit_name>> : k \in DOMAIN head.metrics} |->
              IF e[2] = logit_name /\ e[1] \in DOMAIN head.metrics
              THEN PerHeadEntry(loss_weight, head.metrics[e[1]])
              ELSE merged.per_head[e]],
         per_sequence_loss |->
           merged.per_sequence_loss
             (+) Scaled(loss_weight, head.per_sequence_loss)]
        : head \in { ComputeMetrics(q, tpu, preds[logit_name], tgt.labels,
                                    tgt.weights, None) } })

\* The loop over p.logit_types.iteritems(), from the i-th item on.
RECURSIVE MergeHeads(_, _, _, _, _, _)
MergeHeads(q, tpu, preds, tgt, i, merged) ==
  IF i > Len(q.logit_types) \/ merged.raised # "none" THEN merged
  ELSE Only({ MergeHeads(q, tpu, preds, tgt, i + 1, next)
              : next \in { MergeHead(q, tpu, preds, tgt, i, merged) } })

\* AsrDecoderBase.ComputeMetricsAndPerSequenceLoss with label_smoothing None
\* (target_probs is None).
ComputeMetricsAndPerSequenceLoss(q, tpu, preds, tgt) ==
  MergeHeads(q, tpu, preds, tgt, 1,
             [raised |-> "none", combined |-> <<>>, per_head |-> <<>>,
              per_sequence_loss |-> EmptyBag])

\* ComputeLoss(theta, predictions, targets) on what ComputePredictions
\* returned, as FProp calls it.
ComputeLoss ==
  /\ pc = "done"
  /\ \E merged \in {ComputeMetricsAndPerSequenceLoss(p, use_tpu, predictions,
                                                      targets)} :
       IF merged.raised # "none"
       THEN /\ raised' = merged.raised
            /\ pc' = "loss_raised"
            /\ UNCHANGED metrics
       ELSE /\ metrics' = [metrics |-> [combined |-> merged.combined,
                                        per_head |-> merged.per_head],
                           per_sequence_loss |-> merged.per_sequence_loss]
            /\ pc' = "loss_done"
            /\ UNCHANGED raised
  /\ UNCHANGED <<fixed, beam_search, heap, packed_src, time,
                 decoder_step_state, old_decoder_step_state, target_embs,
                 seq_out_tas, state0, lm_output, accumulated_states,
                 predictions, cur_target_info, multinomial_logits,
                 atten_inits>>

\* ------------------------------------------------------------ beam search
\* AsrDecoderBase.InitDecoder: the six values it returns, with the heap
\* holding misc_states, the packed source and the calls of _InitAttention.
InitDecoder(q, step, dec_bs) ==
  Only({ [rnn_states    |-> zero.state.rnn_states,
          atten_context |-> zero.state.atten_context,
          atten_probs   |-> zero.state.atten_probs,
          atten_states  |-> zero.state.atten_states,
          fusion_states |-> zero.state.fusion_states,
          misc_states   |-> zero.state.misc_states,
          heap          |-> zero.heap,
          packed_src    |-> zero.packed_src,
          atten_inits   |-> zero.atten_inits]
         : zero \in { DecoderStepZeroState(
                        q, step,
                        [h \in 1..dec_bs |-> <<1 * q.target_sos_id>>],
                        dec_bs) } })

\* _GetNumHypsForBeamSearch as it would be if it returned the batch size.
GetNumHypsIgnoringBeam(hyps_per_beam) == BatchSize

\* AsrDecoder._GetNumHypsForBeamSearch: tf.shape(source_encs)[1] is the
\* batch size.
GetNumHypsForBeamSearch(hyps_per_beam) == BatchSize * hyps_per_beam

\* AsrDecoder._PostProcessAttenProbsForBeamSearch.
PostProcessAttenProbsForBeamSearch(atten_probs) == atten_probs

\* AsrDecoder._InitBeamSearchStateCallback.
InitBeamSearchStateCallback(q, step, hyps_per_beam) ==
  Only({ [initial_results |->
            [atten_probs |->
               PostProcessAttenProbsForBeamSearch(init.atten_probs)],
          other_states |->
            [rnn_states |-> init.rnn_states,
             all_atten_states |->
               [atten_context |-> init.atten_context,
                atten_probs |->
                  PostProcessAttenProbsForBeamSearch(init.atten_probs),
                atten_states |-> init.atten_states],
             fusion_states |-> init.fusion_states,
             misc_states |-> init.misc_states],
          heap |-> init.heap,
          packed_src |-> init.packed_src,
          atten_inits |-> init.atten_inits]
         : init \in { InitDecoder(q, step,
                                  GetNumHypsForBeamSearch(hyps_per_beam)) } })

\* tf.nn.log_softmax(logits).
LogSoftmax(logits) ==
  [b \in DOMAIN logits |-> Vec(Width(logits[b]), <<"log_softmax", logits[b]>>)]

\* AsrDecoder._PreBeamSearchStepCallback on the heap h: the results, the new
\* states, the heap it leaves, the packed source it computed and the target
\* info it fed the step.
PreBeamSearchStepCallback(q, h, ids, states) ==
  LET step_paddings == [b \in DOMAIN ids |-> 0]
      embs == [b \in DOMAIN ids |-> EmbLookup(ids[b])]
      prev_decoder_step_state ==
        [rnn_states    |-> states.rnn_states,
         atten_context |-> states.all_atten_states.atten_context,
         atten_probs   |-> states.all_atten_states.atten_probs,
         atten_states  |-> states.all_atten_states.atten_states,
         misc_states   |-> states.misc_states]
      target_info == [id |-> ids, label |-> None, weight |-> None,
                      emb |-> embs, padding |-> step_paddings]
      packed == InitAttention
  IN  Only({ Only({ Only({ Only({
        [bs_results |->
           [atten_probs |->
              PostProcessAttenProbsForBeamSearch(step.state.atten_probs),
            log_probs |->
              Only({ IF q.use_unnormalized_logits_as_log_probs THEN logits
                     ELSE LogSoftmax(logits)
                     : logits \in { ComputeLogitsWithLM(
                                      q, out.fusion_states,
                                      SoftmaxFProp(out.step_outs)) } })],
         new_states |->
           [rnn_states |-> step.state.rnn_states,
            all_atten_states |->
              [atten_context |-> step.state.atten_context,
               atten_probs |->
                 PostProcessAttenProbsForBeamSearch(step.state.atten_probs),
               atten_states |-> step.state.atten_states],
            fusion_states |-> out.fusion_states,
            misc_states |-> step.state.misc_states],
         heap |-> step.heap,
         packed_src |-> packed,
         cur_target_info |-> OverrideEmbedding(target_info, fused.emb)]
        : out \in { FuseOutput(
                      q, fused.fusion_states, lm.lm_output,
                      IF q.softmax_uses_attention THEN step.step_out
                      ELSE [b \in DOMAIN ids |->
                              SplitFirst(step.step_out[b], RnnCellDim,
                                         GetAttenContextDim)]) } })
        : step \in { SingleDecodeStep(
                       q, h, packed, OverrideEmbedding(target_info, fused.emb),
                       prev_decoder_step_state, FALSE, 0) } })
        : fused \in { FuseEmb(q, lm.fusion_states, lm.lm_output, embs) } })
        : lm \in { FPropLm(q, states.fusion_states, ids, step_paddings) } })

\* _PostBeamSearchStepCallback as it would be if it cleared the attention
\* context of every hypothesis.
PostStepClearsContext(new_step_ids, states) ==
  [states EXCEPT !.all_atten_states.atten_context =
     [h \in DOMAIN @ |-> Zeros(GetAttenContextDim)]]

\* AsrDecoder._PostBeamSearchStepCallback.
PostBeamSearchStepCallback(new_step_ids, states) == states

\* --- the beam-search driver (self.beam_search), which is not part of the
\* decoder: it calls the init callback once, then the pre-step callback, its
\* own step that picks the next token of every hypothesis and prunes and
\* reorders the hypotheses, and the post-step callback, until the decode
\* ends.  Hypothesis h belongs to the beam of source example
\* ((h - 1) mod batch) + 1.

\* The parents the driver may give the hypotheses: each hypothesis continues
\* a hypothesis of its own beam.
ParentsWithinBeam(num_hyps) ==
  { [h \in 1..num_hyps |-> ((h - 1) % BatchSize) + 1 + BatchSize * k[h]]
    : k \in [1..num_hyps -> 0..((num_hyps \div BatchSize) - 1)] }

\* The parents the driver picks in the model: every hypothesis continues
\* itself, or the next hypothesis of its beam.
ParentChoices(num_hyps) ==
  { [h \in 1..num_hyps |-> h],
    [h \in 1..num_hyps |-> ((h - 1 + BatchSize) % num_hyps) + 1] }

\* The token ids the driver picks in the model: the last class for every
\* hypothesis, or a class by the place of the hypothesis in its beam.
StepIdChoices(num_hyps) ==
  { [h \in 1..num_hyps |-> VocabSize],
    [h \in 1..num_hyps |-> (((h - 1) \div BatchSize) % VocabSize) + 1] }

\* tf.gather(x, old_hyp_ids) on a tensor with one row per hypothesis.
Gather(x, parents) == [h \in DOMAIN x |-> x[parents[h]]]

\* The misc_states the driver builds from misc: the scalars kept, the tensors
\* with one row per hypothesis gathered.
ReOrderMisc(misc, parents) ==
  [f \in DOMAIN misc |->
     IF f = "prev_predicted_ids" THEN Gather(misc[f], parents) ELSE misc[f]]

\* other_states.Transform(ReOrderHyps) with misc_states given by value.
ReOrderHyps(states, parents) ==
  [rnn_states |-> [i \in DOMAIN states.rnn_states |->
                     Gather(states.rnn_states[i], parents)],
   all_atten_states |->
     [f \in DOMAIN states.all_atten_states |->
        Gather(states.all_atten_states[f], parents)],
   fusion_states |-> Gather(states.fusion_states, parents),
   misc_states |-> ReOrderMisc(states.misc_states, parents)]

\* BeamSearchDecode(source_encs, source_paddings) up to the first step: the
\* driver calls the init callback and feeds target_sos_id to every
\* hypothesis.
BeamSearchDecode ==
  /\ pc = "constructed"
  /\ targets = None
  /\ \E init \in { InitBeamSearchStateCallback(p, global_step,
                                                num_hyps_per_beam) } :
       /\ bs_results' = init.initial_results
       /\ bs_states' = init.other_states
       /\ returned_states' = init.other_states
       /\ heap' = init.heap
       /\ packed_src' = init.packed_src
       /\ atten_inits' = init.atten_inits
  /\ step_ids' = [h \in 1..(BatchSize * num_hyps_per_beam) |->
                    p.target_sos_id]
  /\ beam_steps' = 0
  /\ pc' = "bs_pre"
  /\ UNCHANGED <<fixed, training, metrics, raised, cur_target_info>>

\* The driver calls the pre-step callback on the ids and the states it
\* holds.
PreBeamSearchStep ==
  /\ pc = "bs_pre"
  /\ \E pre \in { PreBeamSearchStepCallback(p, heap, step_ids, bs_states) } :
       /\ bs_results' = pre.bs_results
       /\ bs_states' = pre.new_states
       /\ returned_states' = pre.new_states
       /\ heap' = pre.heap
       /\ packed_src' = pre.packed_src
       /\ atten_inits' = Append(atten_inits, pre.packed_src)
       /\ cur_target_info' = pre.cur_target_info
  /\ pc' = "bs_step"
  /\ UNCHANGED <<fixed, training, metrics, raised, step_ids, beam_steps>>

\* The driver's own step: new ids, and the states reordered into a new
\* NestedMap (a new misc_states object).
BeamSearchStep ==
  /\ pc = "bs_step"
  /\ \E new_step_ids \in StepIdChoices(BatchSize * num_hyps_per_beam),
        parents \in ParentChoices(BatchSize * num_hyps_per_beam) :
       LET a == Cardinality(DOMAIN heap) + 1
           reordered ==
             ReOrderHyps(SetField(bs_states, "misc_states",
                                  heap[bs_states.misc_states]), parents)
       IN  /\ step_ids' = new_step_ids
           /\ bs_states' = SetField(reordered, "misc_states", a)
           /\ heap' = [x \in DOMAIN heap \cup {a} |->
                         IF x = a THEN reordered.misc_states ELSE heap[x]]
  /\ pc' = "bs_post"
  /\ UNCHANGED <<fixed, training, metrics, raised, packed_src, atten_inits,
                 cur_target_info, bs_results, returned_states, beam_steps>>

\* The driver calls the post-step callback and goes on to the next step,
\* until MaxBeamSteps steps are done.
PostBeamSearchStep ==
  /\ pc = "bs_post"
  /\ bs_states' = PostBeamSearchStepCallback(step_ids, bs_states)
  /\ beam_steps' = beam_steps + 1
  /\ pc' = IF beam_steps + 1 >= MaxBeamSteps THEN "bs_done" ELSE "bs_pre"
  /\ UNCHANGED <<fixed, training, metrics, raised, heap, packed_src,
                 atten_inits, cur_target_info, step_ids, bs_results,
                 returned_states>>

\* ------------------------------------------------------------ specification
\* Every configuration.  dropout stands for dropout_prob > 0 outside eval,
\* label_smoothing_mismatch for a label_smoothing whose num_classes is neither
\* 0 nor softmax.num_classes, fusion for the class of p.fusion; logit_types is
\* the dict as the sequence of its items, a loss weight w standing for
\* w / WeightDen.
LogitNames == {"logits", "logits_without_bias"}
LogitTypes ==
  { <<[name |-> n, w |-> w]>> : n \in LogitNames, w \in 0..WeightDen }
    \cup { lt \in { <<[name |-> n1, w |-> w1], [name |-> n2, w |-> w2]>>
                     : n1 \in LogitNames, n2 \in LogitNames,
                       w1 \in 0..WeightDen, w2 \in 0..WeightDen }
            : lt[1].name # lt[2].name }
AllParams ==
  [rnn_layers : 1..MaxLayers,
   residual_start : 0..MaxLayers,
   softmax_uses_attention : BOOLEAN,
   dropout : BOOLEAN,
   prng_seed : {1234},
   min_ground_truth_prob : 0..ProbDen,
   min_prob_step : 0..MaxStep,
   prob_decay_start_step : 0..MaxStep,
   use_while_loop_based_unrolling : BOOLEAN,
   packed_input : BOOLEAN,
   label_smoothing_mismatch : BOOLEAN,
   fusion : {"NullFusion", "LmFusion"},
   per_token_avg_loss : BOOLEAN,
   logit_types : LogitTypes,
   use_unnormalized_logits_as_log_probs : BOOLEAN,
   target_sos_id : Vocab]

\* Params(): the defaults, with the decay of the sampling probability moved
\* into the steps of the model: it starts at step 1 and ends at MaxStep, so
\* that the probability is 1 at global step 0 and strictly between
\* min_ground_truth_prob and 1 at step MaxStep - 1.
DefaultParams ==
  [rnn_layers |-> 1,
   residual_start |-> 0,
   softmax_uses_attention |-> TRUE,
   dropout |-> FALSE,
   prng_seed |-> 1234,
   min_ground_truth_prob |-> ProbDen,
   min_prob_step |-> MaxStep,
   prob_decay_start_step |-> 1,
   use_while_loop_based_unrolling |-> TRUE,
   packed_input |-> FALSE,
   label_smoothing_mismatch |-> FALSE,
   fusion |-> "NullFusion",
   per_token_avg_loss |-> TRUE,
   logit_types |-> <<[name |-> "logits", w |-> WeightDen]>>,
   use_unnormalized_logits_as_log_probs |-> TRUE,
   target_sos_id |-> 1]

\* The default params with the fields of a record of `over` set.
Configs(over) ==
  { [f \in DOMAIN DefaultParams |->
       IF f \in DOMAIN o THEN o[f] ELSE DefaultParams[f]] : o \in over }

\* The decoder is about to be constructed from params in P, the global step
\* is in G, the target batch in TB, use_tpu() in TPU and the hypotheses per
\* beam in H.
InitWith(P, G, TB, LG, TPU, H) ==
  /\ other_predictions = None
  /\ post_step_logits \in LG
  /\ p \in P
  /\ global_step \in G
  /\ targets \in TB
  /\ use_tpu \in TPU
  /\ num_hyps_per_beam \in H
  /\ pc = "params"
  /\ raised = "none"
  /\ heap = <<>>
  /\ packed_src = None
  /\ time = 0
  /\ decoder_step_state = None
  /\ old_decoder_step_state = None
  /\ target_embs = None
  /\ seq_out_tas = None
  /\ state0 = None
  /\ lm_output = None
  /\ accumulated_states = <<>>
  /\ predictions = None
  /\ cur_target_info = None
  /\ multinomial_logits = None
  /\ atten_inits = <<>>
  /\ metrics = None
  /\ step_ids = None
  /\ bs_states = None
  /\ bs_results = None
  /\ returned_states = None
  /\ beam_steps = 0

InitFrom(P, G, TB, LG) == InitWith(P, G, TB, LG, {FALSE}, {1})

\* Training passes: every rnn_layers and min_ground_truth_prob under both
\* unrollings.  Dropout is on only in passes without scheduled sampling, LM
\* fusion only in passes of the graph loop without dropout.
PassParams ==
  {q \in Configs([rnn_layers : 1..MaxLayers,
                  dropout : BOOLEAN,
                  min_ground_truth_prob : 0..ProbDen,
                  use_while_loop_based_unrolling : BOOLEAN,
                  fusion : {"NullFusion", "LmFusion"}]) :
     /\ q.dropout => q.min_ground_truth_prob = ProbDen
     /\ q.fusion = "LmFusion" =>
          (q.use_while_loop_based_unrolling /\ ~q.dropout)}

Init ==
  InitFrom(PassParams, {0, MaxStep - 1},
           UNION {TargetBatches(T) : T \in 1..MaxSeqLen}, {None})

Next ==
  \/ Construct
  \/ ComputePredictionsDynamic
  \/ LoopIteration
  \/ LoopExit
  \/ ComputePredictionsFunctional
  \/ RecurrentStep
  \/ FunctionalFinish
  \/ ComputeLoss

Spec == Init /\ [][Next]_vars

\* ------------------------------------------ the two unrollings, side by side
\* The decoder built again with the other value of
\* use_while_loop_based_unrolling, on the same weights, source and targets;
\* what the first pass returned is kept.
OtherUnrolling ==
  /\ pc = "done"
  /\ other_predictions = None
  /\ other_predictions' = Some(predictions)
  /\ p' = [p EXCEPT !.use_while_loop_based_unrolling = ~@]
  /\ pc' = "constructed"
  /\ heap' = <<>>
  /\ packed_src' = None
  /\ time' = 0
  /\ decoder_step_state' = None
  /\ old_decoder_step_state' = None
  /\ target_embs' = None
  /\ seq_out_tas' = None
  /\ state0' = None
  /\ lm_output' = None
  /\ accumulated_states' = <<>>
  /\ predictions' = None
  /\ cur_target_info' = None
  /\ multinomial_logits' = None
  /\ atten_inits' = <<>>
  /\ UNCHANGED <<raised, global_step, targets, post_step_logits, use_tpu,
                 num_hyps_per_beam, metrics, beam_search>>

\* Configurations without scheduled sampling, without dropout and with the
\* null fusion, every rnn_layers, residual_start and softmax_uses_attention.
EquivParams ==
  Configs([rnn_layers : 1..MaxLayers,
           residual_start : 0..MaxLayers,
           softmax_uses_attention : BOOLEAN])

InitEquiv ==
  InitFrom(EquivParams, {0}, UNION {TargetBatches(T) : T \in 1..MaxSeqLen},
           {None})

NextEquiv ==
  \/ Next
  \/ OtherUnrolling

SpecEquiv == InitEquiv /\ [][NextEquiv]_vars

\* ------------------------------- PostStepDecoderStateUpdate called directly
\* A logits tensor to call PostStepDecoderStateUpdate with.
SomeLogits == Some([b \in Batch |-> Vec(VocabSize, <<"logits_arg", b>>)])

\* The state and heap one SingleDecodeStep on the zero state returns, for the
\* first step of the targets.
FirstStep(q, step, tgt) ==
  Only({ Only({ [state |-> dec.state, heap |-> dec.heap]
    : dec \in { SingleDecodeStep(
                  q, zero.heap, zero.packed_src,
                  InputsAt(tgt, TargetEmbs(q, tgt, 0), 0), zero.state,
                  ~q.use_while_loop_based_unrolling, 0) } })
    : zero \in { DecoderStepZeroState(q, step, tgt.ids, BatchSize) } })

\* PostStepDecoderStateUpdate(decoder_step_state, post_step_logits) on the
\* state one SingleDecodeStep returned.
PostStepCall ==
  /\ pc = "constructed"
  /\ \E pred_ids \in (IF MaxLabelProbPositive(p) THEN [Batch -> Vocab]
                      ELSE {[b \in Batch |-> 1]}),
        first \in {FirstStep(p, global_step, targets)} :
     \E post \in {PostStepDecoderStateUpdate(p, first.heap, first.state,
                                             post_step_logits, pred_ids)} :
       /\ raised' = post.raised
       /\ pc' = IF post.raised = "none" THEN "returned" ELSE "raised"
       /\ old_decoder_step_state' = first.state
       /\ decoder_step_state' = post.state
       /\ heap' = post.heap
       /\ multinomial_logits' = post.multinomial_logits
  /\ UNCHANGED <<fixed, beam_search, metrics, packed_src, time, target_embs,
                 seq_out_tas, state0, lm_output, accumulated_states,
                 predictions, cur_target_info, atten_inits>>

InitPostStep ==
  InitFrom({q \in PassParams :
              ~q.dropout /\ q.rnn_layers = 1 /\ q.fusion = "NullFusion"},
           {0, MaxStep - 1}, TargetBatches(1), {None, SomeLogits})

NextPostStep ==
  \/ Construct
  \/ PostStepCall

SpecPostStep == InitPostStep /\ [][NextPostStep]_vars

\* ------------------------------------------------------ every configuration
\* One-layer configurations with every min_ground_truth_prob, min_prob_step,
\* prob_decay_start_step, unrolling, packed_input and label smoothing, at
\* every global step from 0 to past MaxStep.
ConfigParams ==
  Configs([min_ground_truth_prob : 0..ProbDen,
           min_prob_step : 0..MaxStep,
           prob_decay_start_step : 0..MaxStep,
           use_while_loop_based_unrolling : BOOLEAN,
           packed_input : BOOLEAN,
           label_smoothing_mismatch : BOOLEAN])

InitConfig ==
  InitFrom(ConfigParams, 0..(MaxStep + 1), TargetBatches(1), {None})

SpecConfig == InitConfig /\ [][Next]_vars

\* ------------------------------------------------------------ loss heads
\* Every p.logit_types over the heads logits and logits_without_bias, both
\* values of per_token_avg_loss and of use_tpu(), under both unrollings.
MetricsParams ==
  Configs([use_while_loop_based_unrolling : BOOLEAN,
           per_token_avg_loss : BOOLEAN,
           logit_types : LogitTypes])

InitMetrics ==
  InitWith(MetricsParams, {0}, TargetBatches(1), {None}, BOOLEAN, {1})

SpecMetrics == InitMetrics /\ [][Next]_vars

\* ------------------------------------------------------------ layers
\* Training passes of MaxSeqLen steps over every rnn_layers and
\* residual_start, with and without dropout, under both unrollings.
LayerParams ==
  Configs([rnn_layers : 1..MaxLayers,
           residual_start : 0..MaxLayers,
           dropout : BOOLEAN,
           use_while_loop_based_unrolling : BOOLEAN])

InitLayers ==
  InitFrom(LayerParams, {MaxStep - 1}, TargetBatches(MaxSeqLen), {None})

SpecLayers == InitLayers /\ [][Next]_vars

\* ------------------------------------------------------------ decoding
\* A decoder that either runs one beam-search decode (no targets) or one
\* training pass of MaxSeqLen steps.  Decodes: one or two layers, with and
\* without a language model, with and without scheduled sampling configured,
\* any target_sos_id, one to MaxHyps hypotheses per beam.
BeamParams ==
  Configs([rnn_layers : 1..2,
           softmax_uses_attention : BOOLEAN,
           use_unnormalized_logits_as_log_probs : BOOLEAN,
           fusion : {"NullFusion", "LmFusion"},
           min_ground_truth_prob : {0, ProbDen},
           target_sos_id : Vocab])

TrainParams ==
  Configs([rnn_layers : 1..2, softmax_uses_attention : BOOLEAN,
           use_while_loop_based_unrolling : BOOLEAN])

InitBeam ==
  \/ InitWith(BeamParams, {0}, {None}, {None}, {FALSE}, 1..MaxHyps)
  \/ InitWith(TrainParams, {0}, TargetBatches(MaxSeqLen), {None}, {FALSE},
              {1})

NextBeam ==
  \/ Next
  \/ BeamSearchDecode
  \/ PreBeamSearchStep
  \/ BeamSearchStep
  \/ PostBeamSearchStep

SpecBeam == InitBeam /\ [][NextBeam]_vars

\* ------------------------------------------------------------------ claims
\* The address of the misc_states object of the carried state.
CarriedMisc == heap[decoder_step_state.misc_states]

\* The steps of the pass completed so far.
StepsDone ==
  IF p.use_while_loop_based_unrolling THEN time ELSE Len(accumulated_states)

\* A pass is between two steps, at least one step done.
AfterAStep == pc \in {"dynamic", "functional"} /\ StepsDone >= 1

\* C1: without scheduled sampling and without dropout, whatever rnn_layers,
\* residual_start and softmax_uses_attention are, the graph-loop unroller and
\* the function-based unroller return the same logits for every example and
\* every time step on the same inputs.
C1_SameLogits ==
  (pc = "done" /\ other_predictions # None)
    => predictions.logits = other_predictions[1].logits

\* Every output buffer of the graph-loop unroller.
Buffers(tas) ==
  <<tas.step_outs, tas.atten_probs, tas.logits>>
    \o tas.rnn_outs \o tas.fusion \o tas.misc

\* C2: the graph loop starts at time 0, runs its body for t = 0, 1, ..., T-1
\* in this order and stops with time = T; an iteration computes its state from
\* the state the iteration before it returned; iteration t writes slot t,
\* empty until then, and no other slot of every output buffer, so that at
\* the end every buffer holds T entries, each written once.
C2_LoopOrder ==
  /\ [](pc = "dynamic" =>
          /\ time \in 0..SeqLen(targets)
          /\ \A i \in 1..Len(Buffers(seq_out_tas)) :
               /\ DOMAIN Buffers(seq_out_tas)[i] = 0..(SeqLen(targets) - 1)
               /\ Written(Buffers(seq_out_tas)[i]) = 0..(time - 1))
  /\ []((pc = "done" /\ p.use_while_loop_based_unrolling) =>
          /\ time = SeqLen(targets)
          /\ \A i \in 1..Len(Buffers(seq_out_tas)) :
               Written(Buffers(seq_out_tas)[i]) = 0..(SeqLen(targets) - 1))
  /\ [][(pc = "constructed" /\ pc' = "dynamic") => time' = 0]_vars
  /\ [][(pc = "dynamic" /\ pc' = "dynamic") =>
          /\ time < SeqLen(targets)
          /\ time' = time + 1
          /\ \A b \in Batch :
               /\ Head(decoder_step_state'.rnn_states[1][b].m).v[3]
                    = decoder_step_state.rnn_states[1][b].m
               /\ Head(decoder_step_state'.rnn_states[1][b].m).v[4][2]
                    = decoder_step_state.atten_context[b]
               /\ decoder_step_state'.atten_states[b][2][3]
                    = decoder_step_state.atten_states[b]
          /\ \A i \in 1..Len(Buffers(seq_out_tas)) :
               /\ Buffers(seq_out_tas)[i][time] = None
               /\ Buffers(seq_out_tas')[i][time] # None
               /\ \A slot \in DOMAIN Buffers(seq_out_tas)[i] \ {time} :
                    Buffers(seq_out_tas')[i][slot]
                      = Buffers(seq_out_tas)[i][slot]]_vars

\* C2's case: a graph-loop pass over the longest targets has ended.
C2_Witness ==
  /\ pc = "done"
  /\ p.use_while_loop_based_unrolling
  /\ SeqLen(targets) = MaxSeqLen
  /\ time = MaxSeqLen

\* C3 as stated: after a step (SingleDecodeStep, then
\* PostStepDecoderStateUpdate) the state the step was given still holds its
\* values, its time_step among them, and shares no mutable object with the
\* state the step returned.
C3_NoAliasing ==
  AfterAStep =>
    /\ old_decoder_step_state.misc_states # decoder_step_state.misc_states
    /\ heap[old_decoder_step_state.misc_states].step_state.time_step
         = StepsDone - 1

\* C3, amended: a step returns fresh rnn_states, atten_context, atten_probs
\* and atten_states computed from those of the state it was given, which keeps
\* them; the misc_states object is the one of the state it was given, updated
\* in place, so that state now shows the new time_step (and, under scheduled
\* sampling, the newly sampled prev_predicted_ids).
C3_MiscShared ==
  AfterAStep =>
    /\ old_decoder_step_state.misc_states = decoder_step_state.misc_states
    /\ heap[old_decoder_step_state.misc_states].step_state.time_step
         = StepsDone
    /\ \A b \in Batch :
         /\ Head(decoder_step_state.rnn_states[1][b].m).v[3]
              = old_decoder_step_state.rnn_states[1][b].m
         /\ Head(decoder_step_state.rnn_states[1][b].m).v[4][2]
              = old_decoder_step_state.atten_context[b]
         /\ decoder_step_state.atten_states[b][2][3]
              = old_decoder_step_state.atten_states[b]

\* C3's case: two steps of a pass are done.
C3_Witness == AfterAStep /\ StepsDone = 2

\* The fields of the state the graph loop carries.
CarriedFields ==
  {"rnn_states", "atten_context", "atten_probs", "atten_states",
   "fusion_states", "misc_states"}

LastLayerSeeds(step_out) == <<Head(step_out).v[3], Head(step_out).v[4]>>

C6_PostStepRaises ==
  (pc \in {"returned", "raised"}) =>
    LET first == FirstStep(p, global_step, targets)
    IN  /\ raised \in {"none", "ValueError"}
        /\ (raised = "ValueError") <=>
             \/ /\ ~p.use_while_loop_based_unrolling
                /\ p.min_ground_truth_prob < ProbDen
             \/ /\ p.use_while_loop_based_unrolling
                /\ post_step_logits = None
        /\ (pc = "raised") <=> (raised = "ValueError")
        /\ old_decoder_step_state = first.state
        /\ pc = "raised" =>
             Values(old_decoder_step_state, heap)
               = Values(first.state, first.heap)
        /\ (pc = "returned" /\ ~p.use_while_loop_based_unrolling) =>
             /\ decoder_step_state = first.state
             /\ CarriedMisc.step_state.time_step = 1
        /\ (pc = "returned" /\ p.use_while_loop_based_unrolling) =>
             /\ decoder_step_state.logits = post_step_logits[1]
             /\ CarriedMisc.step_state.time_step = 1

\* C6's case: the call raised under the graph loop, for want of logits.
C6_Witness ==
  /\ pc = "raised"
  /\ p.use_while_loop_based_unrolling
  /\ post_step_logits = None
  /\ old_decoder_step_state # None

\* C7 as stated: a decoder configured with scheduled sampling and functional
\* unrolling is never constructed.
C7_FailsAtConstruction ==
  (MaxLabelProbPositive(p) /\ ~p.use_while_loop_based_unrolling
     /\ pc # "params")
    => pc = "not_constructed"

\* C7, amended: with scheduled sampling and functional unrolling the
\* constructor fails only for packed_input, min_prob_step <=
\* prob_decay_start_step or mismatched label smoothing classes; the decoder
\* is constructed otherwise, and its first prediction call fails the
\* assertion of ComputePredictionsFunctional, no state built.
C7_FailsAtFirstCall ==
  (MaxLabelProbPositive(p) /\ ~p.use_while_loop_based_unrolling
     /\ pc # "params")
    => /\ pc \in {"not_constructed", "constructed", "raised"}
       /\ (pc = "not_constructed") <=>
            \/ p.packed_input
            \/ p.min_prob_step <= p.prob_decay_start_step
            \/ p.label_smoothing_mismatch
       /\ pc = "constructed" => raised = "none"
       /\ pc = "raised" =>
            /\ raised = "AssertionError"
            /\ decoder_step_state = None
            /\ heap = <<>>

\* C7's case: the prediction call of such a decoder has failed.
C7_Witness ==
  /\ MaxLabelProbPositive(p)
  /\ ~p.use_while_loop_based_unrolling
  /\ pc = "raised"

\* C8: ComputePredictionsFunctional with min_ground_truth_prob below 1 fails
\* before the zero state is built and before any step of the scan; with
\* min_ground_truth_prob = 1 it does not fail.
C8_FunctionalRefusesSampling ==
  (~p.use_while_loop_based_unrolling
     /\ pc \in {"functional", "done", "raised"})
    => IF p.min_ground_truth_prob < ProbDen
       THEN /\ pc = "raised"
            /\ raised = "AssertionError"
            /\ decoder_step_state = None
            /\ state0 = None
            /\ heap = <<>>
            /\ packed_src = None
            /\ accumulated_states = <<>>
       ELSE /\ pc \in {"functional", "done"}
            /\ raised = "none"
            /\ state0 # None

\* C8's case: the call was made with min_ground_truth_prob below 1.
C8_Witness ==
  /\ ~p.use_while_loop_based_unrolling
  /\ p.min_ground_truth_prob < ProbDen
  /\ pc = "raised"

\* C9 as stated: the constructor raises ValueError exactly when
\* min_prob_step <= prob_decay_start_step.
C9_ValueErrorIffNoInterval ==
  pc # "params" =>
    ((pc = "not_constructed" /\ raised = "ValueError")
       <=> p.min_prob_step <= p.prob_decay_start_step)

\* C9, amended: with packed_input False the constructor raises ValueError
\* exactly when min_prob_step <= prob_decay_start_step, scheduled sampling or
\* not; with packed_input True it fails its assertion before it compares the
\* two steps.
C9_ValueErrorUnlessPacked ==
  pc # "params" =>
    /\ (pc = "not_constructed" /\ raised = "ValueError")
         <=> (~p.packed_input
                /\ p.min_prob_step <= p.prob_decay_start_step)
    /\ p.packed_input => (pc = "not_constructed" /\ raised = "AssertionError")

\* C9's case: the constructor raised ValueError on a configuration without
\* scheduled sampling.
C9_Witness ==
  /\ pc = "not_constructed"
  /\ raised = "ValueError"
  /\ ~MaxLabelProbPositive(p)
  /\ p.min_prob_step = p.prob_decay_start_step

\* C10: the groundtruth_p MiscZeroState computes under scheduled sampling lies
\* between min_ground_truth_prob and 1, is 1 at every global step up to
\* prob_decay_start_step, is min_ground_truth_prob at every global step from
\* min_prob_step on, and is no larger at a later global step.
C10_GroundtruthP ==
  (p.use_while_loop_based_unrolling /\ MaxLabelProbPositive(p)
     /\ pc \in {"dynamic", "done"})
    => LET groundtruth_p == CarriedMisc.groundtruth_p
           min_p == Frac(p.min_ground_truth_prob, ProbDen)
       IN  /\ FracLeq(min_p, groundtruth_p)
           /\ FracLeq(groundtruth_p, Frac(1, 1))
           /\ global_step <= p.prob_decay_start_step
                => FracEq(groundtruth_p, Frac(1, 1))
           /\ global_step >= p.min_prob_step
                => FracEq(groundtruth_p, min_p)
           /\ \A later \in global_step..(MaxStep + 2) :
                FracLeq(MiscZeroState(p, later, targets.ids).groundtruth_p,
                        groundtruth_p)

\* C10's case: a zero state built while the probability decays, strictly
\* between min_ground_truth_prob and 1.
C10_Witness ==
  /\ p.use_while_loop_based_unrolling
  /\ MaxLabelProbPositive(p)
  /\ pc = "dynamic"
  /\ FracLess(Frac(p.min_ground_truth_prob, ProbDen),
              CarriedMisc.groundtruth_p)
  /\ FracLess(CarriedMisc.groundtruth_p, Frac(1, 1))

\* An iteration of the graph loop runs from this state to the next.
IterationStep == pc = "dynamic" /\ pc' = "dynamic" /\ time' = time + 1

\* The prev_predicted_ids the steps of the graph loop saw, read back from the
\* output buffers: step t >= 1 saw what step t - 1 wrote in slot t - 1.
PrevPredictedIdsSeenAt(t) == seq_out_tas.misc[2][t - 1][1]

\* C11: under scheduled sampling, an iteration of the graph loop that finds
\* groundtruth_p = 1 in its state feeds the ground-truth id and the
\* ground-truth embedding of its time step for every example, whatever the
\* uniform draws and whatever prev_predicted_ids holds.
C11_GroundTruthAtProbOne ==
  [][(/\ IterationStep
      /\ MaxLabelProbPositive(p)
      /\ FracEq(CarriedMisc.groundtruth_p, Frac(1, 1)))
       => \A b \in Batch :
            /\ cur_target_info'.id[b] = targets.ids[b][time + 1]
            /\ cur_target_info'.emb[b] = target_embs[b][time + 1]]_vars

\* C11's case: at groundtruth_p = 1 the second step was fed the ground truth
\* although no example's prev_predicted_ids was its ground-truth id.
C11_Witness ==
  /\ pc = "dynamic"
  /\ time = 2
  /\ MaxLabelProbPositive(p)
  /\ FracEq(CarriedMisc.groundtruth_p, Frac(1, 1))
  /\ \A b \in Batch :
       /\ PrevPredictedIdsSeenAt(1)[b] # targets.ids[b][2]
       /\ cur_target_info.id[b] = targets.ids[b][2]

\* C12: every iteration of the graph loop feeds the label, weight and padding
\* of the targets at its time step, and for every example either the id and
\* the embedding of the targets at that step or, under scheduled sampling,
\* the prev_predicted_ids of its state and the embedding of that id: never
\* the id of one and the embedding of the other.
C12_IdAndEmbTogether ==
  [][IterationStep
       => \A b \in Batch :
            /\ cur_target_info'.label[b] = targets.labels[b][time + 1]
            /\ cur_target_info'.weight[b] = targets.weights[b][time + 1]
            /\ cur_target_info'.padding[b] = targets.paddings[b][time + 1]
            /\ \/ /\ cur_target_info'.id[b] = targets.ids[b][time + 1]
                  /\ cur_target_info'.emb[b] = target_embs[b][time + 1]
               \/ /\ MaxLabelProbPositive(p)
                  /\ cur_target_info'.id[b] = CarriedMisc.prev_predicted_ids[b]
                  /\ cur_target_info'.emb[b]
                       = EmbLookup(CarriedMisc.prev_predicted_ids[b])]_vars

\* C12's case: in one iteration the first example was fed its ground truth
\* and the second its previous prediction, another id, with the embedding of
\* that id.
C12_Witness ==
  /\ pc = "dynamic"
  /\ time = 2
  /\ cur_target_info.id[1] = targets.ids[1][2]
  /\ cur_target_info.emb[1] = target_embs[1][2]
  /\ cur_target_info.id[2] # targets.ids[2][2]
  /\ cur_target_info.id[2] = PrevPredictedIdsSeenAt(1)[2]
  /\ cur_target_info.emb[2] = EmbLookup(cur_target_info.id[2])

\* ------------------------------------------------------------ C13..C15
\* The configured heads, and whether each is a field of the predictions.
NumHeads == Len(p.logit_types)
HeadName(i) == p.logit_types[i].name
HeadWeight(i) == p.logit_types[i].w
HeadsArePredictions == \A i \in 1..NumHeads : HeadName(i) \in DOMAIN predictions

\* What the losses of one head are, from the definitions of the two
\* normalizations.
PerSequenceLossOf(n) ==
  <<"reduce_sum_over_time",
    <<"sparse_softmax_cross_entropy", targets.labels, predictions[n]>>,
    targets.weights>>
PerTokenAverageOf(n) ==
  <<"div", <<"reduce_sum", PerSequenceLossOf(n)>>,
    <<"add_eps", <<"reduce_sum", targets.weights>>>>>>
PerSequenceAverageOf(n) == <<"reduce_mean", PerSequenceLossOf(n)>>

\* The value reported for head n under the metric name k.
ReportedValue(k, n) == metrics.metrics.per_head[<<k, n>>][1]
MetricNamesOf(n) == {k \in DOMAIN metrics.metrics.combined :
                       <<k, n>> \in DOMAIN metrics.metrics.per_head}
Reports(n, x) == \E k \in MetricNamesOf(n) : ReportedValue(k, n) = Unscaled(x)

\* C13 as stated: whichever value per_token_avg_loss has, the metrics of a
\* head contain both the per-token-average and the per-sequence-average loss,
\* and 'loss' is the one the switch chooses.
C13_BothNormalizationsReported ==
  pc = "loss_done" =>
    \A i \in 1..NumHeads :
      /\ Reports(HeadName(i), PerTokenAverageOf(HeadName(i)))
      /\ Reports(HeadName(i), PerSequenceAverageOf(HeadName(i)))
      /\ ReportedValue("loss", HeadName(i)) =
           Unscaled(IF p.per_token_avg_loss
                    THEN PerTokenAverageOf(HeadName(i))
                    ELSE PerSequenceAverageOf(HeadName(i)))

\* C13: whichever value per_token_avg_loss has, the metrics of a head contain
\* the per-token-average loss (as 'log_pplx'); they contain the
\* per-sequence-average loss exactly when per_token_avg_loss is False, and
\* then as 'loss'; 'loss' is the one the switch chooses.
C13_ChosenLossAndLogPplx ==
  pc = "loss_done" =>
    \A i \in 1..NumHeads :
      /\ ReportedValue("log_pplx", HeadName(i)) =
           Unscaled(PerTokenAverageOf(HeadName(i)))
      /\ Reports(HeadName(i), PerSequenceAverageOf(HeadName(i)))
           <=> ~p.per_token_avg_loss
      /\ ReportedValue("loss", HeadName(i)) =
           Unscaled(IF p.per_token_avg_loss
                    THEN PerTokenAverageOf(HeadName(i))
                    ELSE PerSequenceAverageOf(HeadName(i)))

C13_Witness ==
  /\ pc = "loss_done"
  /\ p.per_token_avg_loss
  /\ NumHeads = 2
  /\ ~Reports(HeadName(1), PerSequenceAverageOf(HeadName(1)))

\* The metrics of the i-th head on its own.
HeadMetrics(i) ==
  ComputeMetrics(p, use_tpu, predictions[HeadName(i)], targets.labels,
                 targets.weights, None)

\* The sum of the weights of the heads in S.
RECURSIVE SumOfWeights(_)
SumOfWeights(S) ==
  IF S = {} THEN 0
  ELSE LET i == CHOOSE i \in S : TRUE
       IN  HeadWeight(i) + SumOfWeights(S \ {i})

\* sum is the sum over the heads i of w_i * Term(i).
IsWeightedSum(sum, Term(_)) ==
  /\ BagToSet(sum) \subseteq {Term(i) : i \in 1..NumHeads}
  /\ \A i \in 1..NumHeads :
       CopiesIn(Term(i), sum) =
         SumOfWeights({j \in 1..NumHeads : Term(j) = Term(i)})

\* C14: for any configured heads that are fields of the predictions, whatever
\* their weights sum to, ComputeMetricsAndPerSequenceLoss does not raise and
\* returns for every metric name k the pair (sum_i w_i * value_i,
\* sum_i w_i * normalizer_i) and per_sequence_loss = sum_i w_i *
\* per_sequence_loss_i; with the single head {'logits': 1.0} the entry k is
\* that head's own pair.
C14_WeightedCombination ==
  /\ pc = "loss_raised" => ~HeadsArePredictions
  /\ pc = "loss_done" =>
       /\ \A k \in DOMAIN metrics.metrics.combined :
            /\ LET Value(i) == HeadMetrics(i).metrics[k][1]
               IN  IsWeightedSum(metrics.metrics.combined[k][1], Value)
            /\ LET Normalizer(i) == HeadMetrics(i).metrics[k][2]
               IN  IsWeightedSum(metrics.metrics.combined[k][2], Normalizer)
       /\ LET PerSequenceLoss(i) == HeadMetrics(i).per_sequence_loss
          IN  IsWeightedSum(metrics.per_sequence_loss, PerSequenceLoss)
       /\ DOMAIN metrics.metrics.combined = DOMAIN HeadMetrics(1).metrics
       /\ p.logit_types = <<[name |-> "logits", w |-> WeightDen]>> =>
            \A k \in DOMAIN metrics.metrics.combined :
              metrics.metrics.combined[k] =
                <<Unscaled(HeadMetrics(1).metrics[k][1]),
                  Unscaled(HeadMetrics(1).metrics[k][2])>>

C14_Witness ==
  /\ pc = "loss_done"
  /\ NumHeads = 2
  /\ HeadWeight(1) > 0 /\ HeadWeight(2) > 0
  /\ HeadWeight(1) + HeadWeight(2) # WeightDen
  /\ \E x \in BagToSet(metrics.metrics.combined["loss"][1]) :
       CopiesIn(x, metrics.metrics.combined["loss"][1]) # WeightDen

\* C15 as stated: the entry k/name is (w * value, w * normalizer).
C15_PerHeadScaled ==
  pc = "loss_done" =>
    \A i \in 1..NumHeads : \A k \in DOMAIN HeadMetrics(i).metrics :
      metrics.metrics.per_head[<<k, HeadName(i)>>] =
        <<Scaled(HeadWeight(i), HeadMetrics(i).metrics[k][1]),
          Scaled(HeadWeight(i), HeadMetrics(i).metrics[k][2])>>

\* C15: for every configured head (name, w) and every metric name k the
\* entry k/name is that head's own pair (value, normalizer), not scaled by w.
C15_PerHeadUnscaled ==
  pc = "loss_done" =>
    \A i \in 1..NumHeads : \A k \in DOMAIN HeadMetrics(i).metrics :
      metrics.metrics.per_head[<<k, HeadName(i)>>] =
        <<Unscaled(HeadMetrics(i).metrics[k][1]),
          Unscaled(HeadMetrics(i).metrics[k][2])>>

C15_Witness ==
  /\ pc = "loss_done"
  /\ \E i \in 1..NumHeads :
       /\ HeadWeight(i) \notin {0, WeightDen}
       /\ metrics.metrics.per_head[<<"loss", HeadName(i)>>][1] =
            Unscaled(HeadMetrics(i).metrics["loss"][1])

\* ------------------------------------------------------------ C16..C18
NumHyps == BatchSize * num_hyps_per_beam
Hyps == 1..NumHyps
Decoding == pc \in {"bs_pre", "bs_step", "bs_post", "bs_done"}

\* The fields of the state the callbacks exchange.
StateFields == {"rnn_states", "all_atten_states", "fusion_states",
                "misc_states"}
AttenFields == {"atten_context", "atten_probs", "atten_states"}
HasStateFields(states) ==
  /\ DOMAIN states = StateFields
  /\ DOMAIN states.all_atten_states = AttenFields

\* Every tensor of states that has a row per hypothesis has exactly the rows
\* of Hyps.
ForExactlyHyps(states) ==
  /\ \A i \in DOMAIN states.rnn_states : DOMAIN states.rnn_states[i] = Hyps
  /\ \A f \in AttenFields : DOMAIN states.all_atten_states[f] = Hyps
  /\ p.fusion # "NullFusion" => DOMAIN states.fusion_states = Hyps

\* C16: the init callback returns initial results holding atten_probs and a
\* zero state for exactly batch * num_hyps_per_beam hypotheses, every one
\* seeded with target_sos_id, with exactly the fields rnn_states,
\* all_atten_states {atten_context, atten_probs, atten_states},
\* fusion_states and misc_states; every pre-step callback returns a state
\* with the same fields.
C16_InitStateAndFields ==
  /\ (pc = "bs_pre" /\ beam_steps = 0) =>
       /\ DOMAIN bs_results = {"atten_probs"}
       /\ DOMAIN bs_results.atten_probs = Hyps
       /\ HasStateFields(returned_states)
       /\ ForExactlyHyps(returned_states)
       /\ DOMAIN returned_states.rnn_states = 1..p.rnn_layers
       /\ heap[returned_states.misc_states].step_state.time_step = 0
       /\ MaxLabelProbPositive(p) =>
            heap[returned_states.misc_states].prev_predicted_ids =
              [h \in Hyps |-> p.target_sos_id]
  /\ Decoding => HasStateFields(returned_states)

C16_Witness ==
  /\ pc = "bs_step"
  /\ beam_steps = 1
  /\ num_hyps_per_beam = MaxHyps
  /\ MaxLabelProbPositive(p)
  /\ p.target_sos_id # 1
  /\ HasStateFields(returned_states)

\* A callback state with its misc_states object read from the heap.
StateValues(states) ==
  SetField(states, "misc_states", heap[states.misc_states])

HeldStateIsReturnedState ==
  IF beam_steps = 0 THEN bs_states = returned_states
  ELSE \E parents \in ParentsWithinBeam(NumHyps) :
         StateValues(bs_states) =
           ReOrderHyps(StateValues(returned_states), parents)

Training == pc \in {"dynamic", "functional", "done", "loss_done",
                    "loss_raised"}

\* The pre-step callbacks of this decode that have returned.
PreStepsDone == beam_steps + (IF pc \in {"bs_step", "bs_post"} THEN 1 ELSE 0)

\* The packed source the attention read for example or hypothesis b when it
\* computed atten_states.
PackedSourceUsed(atten_states, b) == atten_states[b][2][1]

\* The last step (or the zero state) of the pass read the packed source of
\* zero-state initialization.
StepUsesFirstPackedSource ==
  /\ packed_src = atten_inits[1]
  /\ Training =>
       \A b \in Batch :
         PackedSourceUsed(decoder_step_state.atten_states, b) =
           SourceOf(atten_inits[1], b)
  /\ Decoding =>
       \A h \in Hyps :
         PackedSourceUsed(returned_states.all_atten_states.atten_states, h) =
           SourceOf(atten_inits[1], h)

\* C18 as stated: in a training pass and in a beam-search decode alike the
\* source is packed exactly once, during zero-state initialization, and every
\* step uses that packed source.
C18_PackedExactlyOnce ==
  (Training \/ Decoding) =>
    /\ Len(atten_inits) = 1
    /\ StepUsesFirstPackedSource

\* C18: in a training pass of either unrolling the source is packed exactly
\* once, during zero-state initialization; in a beam-search decode it is
\* packed once during zero-state initialization and once more by every
\* pre-step callback, every time with the same result; every step uses a
\* packed source equal to that of zero-state initialization.
C18_PackedOncePerTrainingPass ==
  /\ Training => Len(atten_inits) = 1
  /\ Decoding =>
       /\ Len(atten_inits) = 1 + PreStepsDone
       /\ \A i \in 1..Len(atten_inits) : atten_inits[i] = atten_inits[1]
  /\ (Training \/ Decoding) => StepUsesFirstPackedSource

C18_Witness ==
  /\ pc = "bs_step"
  /\ beam_steps = 2
  /\ Len(atten_inits) = 4
  /\ StepUsesFirstPackedSource

\* ------------------------------------------------------------ C19
\* The term a one-block vector holds.
TermOf(x) == x[1].v

\* What the iteration that ends now wrote at slot `time` for example b, and
\* the softmax logits it was computed from.
WrittenLogits(b) == seq_out_tas'.logits[time][1][b]
SoftmaxLogits(b) ==
  IF p.fusion = "LmFusion" THEN TermOf(WrittenLogits(b))[3]
  ELSE WrittenLogits(b)
\* The LM output and the fusion state FPropLm gives on the target info of
\* this iteration and the fusion state it started with.
LmOutputOf(b) ==
  <<"lm_output", decoder_step_state.fusion_states[b], cur_target_info'.id[b],
    cur_target_info'.padding[b]>>
LmStateOf(b) ==
  <<"lm_state", decoder_step_state.fusion_states[b], cur_target_info'.id[b],
    cur_target_info'.padding[b]>>
\* The embedding the first layer read in this iteration.
EmbeddingRead(b) == TermOf(decoder_step_state'.rnn_states[1][b].m)[4][1]

\* C19: in every iteration of the graph loop the target info is resolved
\* first, then FPropLm, FuseEmb, SingleDecodeStep, FuseOutput, the softmax,
\* PostStepDecoderStateUpdate, ComputeLogitsWithLM, the write and the
\* advance of time: the ids of scheduled sampling are drawn from the softmax
\* logits before the LM adjustment and the logits written at slot t are
\* those logits after the LM adjustment.
C19_LoopBodyOrder ==
  [][IterationStep =>
       \A b \in Batch :
         /\ MaxLabelProbPositive(p) =>
              /\ multinomial_logits' # None
              /\ multinomial_logits'[1][b] = SoftmaxLogits(b)
         /\ TermOf(SoftmaxLogits(b))[1] = "logits"
         /\ seq_out_tas'.misc[Len(seq_out_tas'.misc)][time][1] = time + 1
         /\ p.fusion = "NullFusion" =>
              /\ TermOf(SoftmaxLogits(b))[2] =
                   seq_out_tas'.step_outs[time][1][b]
              /\ EmbeddingRead(b) = cur_target_info'.emb[b]
         /\ p.fusion = "LmFusion" =>
              /\ TermOf(WrittenLogits(b))[1] = "logits_with_lm"
              /\ TermOf(WrittenLogits(b))[2] =
                   <<"fuse_output_state", <<"fuse_emb_state", LmStateOf(b)>>>>
              /\ decoder_step_state'.fusion_states[b] =
                   TermOf(WrittenLogits(b))[2]
              /\ TermOf(TermOf(SoftmaxLogits(b))[2])[1] = "fused_output"
              /\ TermOf(TermOf(SoftmaxLogits(b))[2])[2] = LmOutputOf(b)
              /\ TermOf(EmbeddingRead(b)) =
                   <<"fused_emb", LmOutputOf(b), cur_target_info'.emb[b]>>]_vars

C19_Witness ==
  /\ pc = "dynamic"
  /\ time = 2
  /\ p.fusion = "LmFusion"
  /\ MaxLabelProbPositive(p)
  /\ multinomial_logits # None
  /\ \A b \in Batch :
       /\ TermOf(seq_out_tas.logits[1][1][b])[1] = "logits_with_lm"
       /\ TermOf(seq_out_tas.logits[1][1][b])[3] = multinomial_logits[1][b]

\* ------------------------------------------------------------ C20
\* The leaves of a misc_states object that no step of a pass changes.
UnsteppedLeaves(m) == [f \in DOMAIN m \ {"step_state", "prev_predicted_ids"}
                         |-> m[f]]

\* C20: the state SingleDecodeStep returns holds the misc_states object of
\* the state it was given, with global_step, time_step, prev_predicted_ids
\* and groundtruth_p unchanged; what it computes anew is rnn_states,
\* atten_context, atten_probs and atten_states.  In a beam-search pre-step,
\* where nothing else touches misc_states, the object and all its leaves are
\* the same after the step; in an iteration of the graph loop the object is
\* the same and only PostStepDecoderStateUpdate's leaves differ.
C20_MiscStatesPassedThrough ==
  [][/\ (pc = "bs_pre" /\ pc' = "bs_step") =>
          /\ bs_states'.misc_states = bs_states.misc_states
          /\ heap' = heap
          /\ \A h \in Hyps :
               /\ TermOf(bs_states'.rnn_states[1][h].m)[3] =
                    bs_states.rnn_states[1][h].m
               /\ TermOf(bs_states'.all_atten_states.atten_context[h])[1] =
                    "atten_context"
               /\ TermOf(bs_states'.all_atten_states.atten_probs[h])[1] =
                    "atten_probs"
               /\ bs_states'.all_atten_states.atten_states[h][2][3] =
                    bs_states.all_atten_states.atten_states[h]
     /\ IterationStep =>
          /\ decoder_step_state'.misc_states = decoder_step_state.misc_states
          /\ DOMAIN heap' = DOMAIN heap
          /\ heap'[decoder_step_state.misc_states].step_state.global_step =
               heap[decoder_step_state.misc_states].step_state.global_step
          /\ UnsteppedLeaves(heap'[decoder_step_state.misc_states]) =
               UnsteppedLeaves(heap[decoder_step_state.misc_states])]_vars

C20_Witness ==
  /\ pc = "bs_step"
  /\ beam_steps = 2
  /\ MaxLabelProbPositive(p)
  /\ DOMAIN heap[bs_states.misc_states] =
       {"step_state", "prev_predicted_ids", "groundtruth_p"}
  /\ heap[bs_states.misc_states].step_state.time_step = 0
  /\ TermOf(bs_states.rnn_states[1][1].m)[1] = "rnn_cell"

\* ------------------------------------------------------------ C21
\* C21: with scheduled sampling enabled, groundtruth_p is what MiscZeroState
\* computes from the global step when the zero state is built, and it has
\* that same value in the state after every step of the pass and in every
\* slot written for it: no step changes it.
C21_GroundtruthPKept ==
  [][MaxLabelProbPositive(p) =>
       /\ (pc = "constructed" /\ pc' = "dynamic") =>
            heap'[decoder_step_state'.misc_states].groundtruth_p =
              MiscZeroState(p, global_step, targets.ids).groundtruth_p
       /\ IterationStep =>
            /\ heap'[decoder_step_state'.misc_states].groundtruth_p =
                 CarriedMisc.groundtruth_p
            /\ seq_out_tas'.misc[1][time] = Some(CarriedMisc.groundtruth_p)]_vars

C21_Witness ==
  /\ pc = "dynamic"
  /\ time = MaxSeqLen
  /\ MaxLabelProbPositive(p)
  /\ FracLess(Frac(p.min_ground_truth_prob, ProbDen),
              CarriedMisc.groundtruth_p)
  /\ seq_out_tas.misc[1][0] = seq_out_tas.misc[1][MaxSeqLen - 1]

\* ------------------------------------------------------------ C22
\* The embedding and the padding the last step was given for example b.
EmbRead(b) ==
  IF p.use_while_loop_based_unrolling THEN cur_target_info.emb[b]
  ELSE InputsAt(targets, target_embs, StepsDone - 1).emb[b]
PaddingRead(b) ==
  IF p.use_while_loop_based_unrolling THEN cur_target_info.padding[b]
  ELSE InputsAt(targets, target_embs, StepsDone - 1).padding[b]

\* The step output of the last step for example b.
LastStepOut(b) ==
  IF p.use_while_loop_based_unrolling THEN seq_out_tas.step_outs[time - 1][1][b]
  ELSE accumulated_states[Len(accumulated_states)].step_outs[b]

\* The cell state of layer n (from 1) after and before the last step.
NewCell(n, b) == decoder_step_state.rnn_states[n][b].m
OldCell(n, b) == old_decoder_step_state.rnn_states[n][b].m

\* C22: in one SingleDecodeStep the first layer consumes the current
\* embedding with the attention context of the previous state; the attention
\* is queried with the output of the first layer; every later layer consumes
\* the running output with the attention context computed in this step;
\* every layer reads and replaces its own state only, so that rnn_states has
\* one entry per layer in layer order.
C22_StepDataFlow ==
  AfterAStep =>
    \A b \in Batch :
      /\ Len(decoder_step_state.rnn_states) = p.rnn_layers
      /\ TermOf(NewCell(1, b)) =
           <<"rnn_cell", 0, OldCell(1, b),
             <<EmbRead(b), old_decoder_step_state.atten_context[b]>>,
             PaddingRead(b)>>
      /\ decoder_step_state.atten_states[b][2][2] = NewCell(1, b)
      /\ decoder_step_state.atten_states[b][2][3] =
           old_decoder_step_state.atten_states[b]
      /\ TermOf(decoder_step_state.atten_context[b]) =
           <<"atten_context", decoder_step_state.atten_states[b][2]>>
      /\ \A n \in 2..p.rnn_layers :
           /\ TermOf(NewCell(n, b))[1] = "rnn_cell"
           /\ TermOf(NewCell(n, b))[2] = n - 1
           /\ TermOf(NewCell(n, b))[3] = OldCell(n, b)
           /\ TermOf(NewCell(n, b))[4][2] = decoder_step_state.atten_context[b]
           /\ TermOf(NewCell(n, b))[5] = PaddingRead(b)
           /\ n = 2 => TermOf(NewCell(n, b))[4][1] = NewCell(1, b)
      /\ <<LastStepOut(b)[Len(LastStepOut(b))]>> =
           decoder_step_state.atten_context[b]

C22_Witness ==
  /\ AfterAStep
  /\ StepsDone = 2
  /\ p.rnn_layers = MaxLayers
  /\ p.residual_start = 2
  /\ TermOf(OldCell(MaxLayers, 1))[1] = "rnn_cell"

\* ------------------------------------------------------------ C23
\* Layers are numbered from 1 here.  The running output after layer n in the
\* last step: what layer n + 1 read, or the head of the step output.
RunningOutput(n, b) ==
  IF n < p.rnn_layers THEN TermOf(NewCell(n + 1, b))[4][1]
  ELSE <<LastStepOut(b)[1]>>

\* Layer n adds its input to its output.
IsResidualLayer(n) == n >= 2 /\ p.residual_start > 0 /\ n >= p.residual_start

\* What layer n itself contributed to the running output after it.
OwnOutput(n, b) ==
  IF IsResidualLayer(n) THEN TermOf(RunningOutput(n, b))[3]
  ELSE RunningOutput(n, b)

\* x is the cell output of layer n after dropout.
IsDroppedOut(x, n, b) ==
  /\ TermOf(x)[1] \in {"dropout", "deterministic_dropout"}
  /\ TermOf(x)[2] = NewCell(n, b)

\* The seed pair of a deterministic dropout.
SeedPair(x) == <<TermOf(x)[3], TermOf(x)[4]>>

\* The dropout of layer n in the last step, when it is deterministic, is
\* seeded with the configured seed offset by 1000 times the index of the
\* layer counted from 0.
SeedOffsetByLayer(n, b) ==
  TermOf(OwnOutput(n, b))[1] = "deterministic_dropout" =>
    SeedPair(OwnOutput(n, b)) =
      <<p.prng_seed + (n - 1) * 1000 + global_step,
        p.prng_seed + (n - 1) * 1000 + (StepsDone - 1)>>

\* C23 as stated: with dropout enabled the output of every non-final layer
\* is dropped out and the output of the final layer is not.
C23_DropoutOnNonFinalLayers ==
  (AfterAStep /\ p.dropout) =>
    \A b \in Batch : \A n \in 1..p.rnn_layers :
      IF n < p.rnn_layers
      THEN IsDroppedOut(OwnOutput(n, b), n, b) /\ SeedOffsetByLayer(n, b)
      ELSE OwnOutput(n, b) = NewCell(n, b)

\* C23: with dropout enabled, dropout is applied to the output of every
\* layer after the first, the final layer included, and not to the output of
\* the first layer, with the seed of a layer offset by 1000 times its index
\* counted from 0; with dropout disabled no output is dropped out.
C23_DropoutOnLaterLayers ==
  AfterAStep =>
    \A b \in Batch :
      /\ OwnOutput(1, b) = NewCell(1, b)
      /\ \A n \in 2..p.rnn_layers :
           IF p.dropout
           THEN IsDroppedOut(OwnOutput(n, b), n, b) /\ SeedOffsetByLayer(n, b)
           ELSE OwnOutput(n, b) = NewCell(n, b)

C23_Witness ==
  /\ AfterAStep
  /\ StepsDone = 2
  /\ p.dropout
  /\ ~p.use_while_loop_based_unrolling
  /\ p.rnn_layers = MaxLayers
  /\ TermOf(OwnOutput(MaxLayers, 1))[1] = "deterministic_dropout"
  /\ OwnOutput(1, 1) = NewCell(1, 1)

\* ------------------------------------------------------------ C24
\* x is what layer n passes on of its own: its cell output, dropped out when
\* dropout is enabled.
IsOwnOutput(x, n, b) ==
  IF p.dropout THEN IsDroppedOut(x, n, b) ELSE x = NewCell(n, b)

\* The last step was a step of three layers with residual_start = 2.
ThreeLayersResidualFromTwo ==
  AfterAStep /\ p.rnn_layers = 3 /\ p.residual_start = 2

\* C24 as stated: with residual_start = 2 and 3 layers the layer-3 output is
\* layer-2's dropped-out output plus layer-3's cell output before its own
\* dropout, and the outputs of layers 1 and 2 carry no residual sum.
C24_ResidualOnLayerThreeOnly ==
  ThreeLayersResidualFromTwo =>
    \A b \in Batch :
      /\ RunningOutput(1, b) = NewCell(1, b)
      /\ IsOwnOutput(RunningOutput(2, b), 2, b)
      /\ TermOf(RunningOutput(3, b)) =
           <<"add", RunningOutput(2, b), NewCell(3, b)>>

\* C24: with residual_start = 2 and 3 layers the layer-3 output is layer-2's
\* output plus layer-3's cell output after its own dropout, the layer-2
\* output is layer-1's output plus layer-2's dropped-out cell output, and
\* only the layer-1 output carries no residual sum.
C24_ResidualFromLayerTwo ==
  ThreeLayersResidualFromTwo =>
    \A b \in Batch :
      /\ RunningOutput(1, b) = NewCell(1, b)
      /\ TermOf(RunningOutput(2, b))[1] = "add"
      /\ TermOf(RunningOutput(2, b))[2] = NewCell(1, b)
      /\ IsOwnOutput(TermOf(RunningOutput(2, b))[3], 2, b)
      /\ TermOf(RunningOutput(3, b))[1] = "add"
      /\ TermOf(RunningOutput(3, b))[2] = RunningOutput(2, b)
      /\ IsOwnOutput(TermOf(RunningOutput(3, b))[3], 3, b)

C24_Witness ==
  /\ ThreeLayersResidualFromTwo
  /\ p.dropout
  /\ StepsDone = 2
  /\ TermOf(RunningOutput(3, 1))[1] = "add"
  /\ TermOf(RunningOutput(3, 1))[3] # NewCell(3, 1)

\* ------------------------------------------------------------ C25
\* Layer n passes on the sum of its input and its own dropped-out output.
PassesSum(n, b) ==
  /\ TermOf(RunningOutput(n, b))[1] = "add"
  /\ TermOf(RunningOutput(n, b))[2] = RunningOutput(n - 1, b)
  /\ IsOwnOutput(TermOf(RunningOutput(n, b))[3], n, b)

\* C25: for residual_start = r with 2 <= r <= L every layer n >= r passes on
\* the sum of the running output before it and its own dropped-out cell
\* output, every layer n with 2 <= n < r passes on its own dropped-out cell
\* output only, with r = 0 no layer adds its input, and the step output is
\* the final running output concatenated with the new attention context.
C25_ResidualRule ==
  AfterAStep =>
    \A b \in Batch :
      /\ (2 <= p.residual_start /\ p.residual_start <= p.rnn_layers) =>
           \A n \in 2..p.rnn_layers :
             IF n >= p.residual_start THEN PassesSum(n, b)
             ELSE IsOwnOutput(RunningOutput(n, b), n, b)
      /\ p.residual_start = 0 =>
           /\ RunningOutput(1, b) = NewCell(1, b)
           /\ \A n \in 2..p.rnn_layers : IsOwnOutput(RunningOutput(n, b), n, b)
      /\ LastStepOut(b) =
           RunningOutput(p.rnn_layers, b) \o decoder_step_state.atten_context[b]

C25_Witness ==
  /\ AfterAStep
  /\ p.rnn_layers = 3
  /\ p.residual_start = 3
  /\ p.dropout
  /\ IsDroppedOut(RunningOutput(2, 1), 2, 1)
  /\ PassesSum(3, 1)
  /\ Len(LastStepOut(1)) = 2

\* ------------------------------------------------------------ C26
\* The time step the attention of hypothesis h was last computed at.
AttentionTimeStep(states, h) ==
  states.all_atten_states.atten_states[h][2][4].time_step

\* C26: during a beam-search decode, after any number of pre-step and
\* post-step callbacks, time_step in the misc_states the driver carries and
\* in the misc_states the last callback returned is 0, and every pre-step
\* ran its decode step at time_step 0.
C26_BeamTimeStepStaysZero ==
  Decoding =>
    /\ heap[bs_states.misc_states].step_state.time_step = 0
    /\ heap[returned_states.misc_states].step_state.time_step = 0
    /\ (pc # "bs_pre" \/ beam_steps >= 1) =>
         \A h \in Hyps :
           /\ AttentionTimeStep(bs_states, h) = 0
           /\ AttentionTimeStep(returned_states, h) = 0

C26_Witness ==
  /\ pc = "bs_done"
  /\ beam_steps = MaxBeamSteps
  /\ beam_steps >= 2
  /\ bs_states.misc_states # returned_states.misc_states
  /\ heap[bs_states.misc_states].step_state.time_step = 0
  /\ AttentionTimeStep(returned_states, 1) = 0

\* ------------------------------------------------------------ C27
\* The width of what the softmax was given to compute the logits x.
SoftmaxInputWidth(x) ==
  IF TermOf(x)[1] = "log_softmax" THEN Width(TermOf(TermOf(x)[2])[2])
  ELSE Width(TermOf(x)[2])

\* The softmax inputs of the graph loop so far have the width w.
GraphLoopSoftmaxWidthIs(w) ==
  (p.use_while_loop_based_unrolling /\ pc \in {"dynamic", "done"}) =>
    \A t \in 0..(time - 1) : \A b \in Batch :
      SoftmaxInputWidth(seq_out_tas.logits[t][1][b]) = w

\* The softmax inputs of the function-based unroller have the width w.
FunctionalSoftmaxWidthIs(w) ==
  (~p.use_while_loop_based_unrolling /\ pc = "done" /\ Training) =>
    \A b \in Batch : \A t \in 1..SeqLen(targets) :
      SoftmaxInputWidth(predictions.logits[b][t]) = w

\* The softmax inputs of the last beam-search pre-step have the width w.
PreStepSoftmaxWidthIs(w) ==
  (Decoding /\ (pc # "bs_pre" \/ beam_steps >= 1)) =>
    \A h \in Hyps : SoftmaxInputWidth(bs_results.log_probs[h]) = w

\* C27: with the null fusion, in the graph loop, in the function-based
\* unroller and in the beam-search pre-step, for either value of
\* softmax_uses_attention, the input of the softmax is as wide as the
\* input_dim the softmax was constructed with.
C27_SoftmaxInputWidth ==
  p.fusion = "NullFusion" =>
    /\ GraphLoopSoftmaxWidthIs(SoftmaxInputDim(p))
    /\ FunctionalSoftmaxWidthIs(SoftmaxInputDim(p))
    /\ PreStepSoftmaxWidthIs(SoftmaxInputDim(p))

\* What does hold: the function-based unroller and the pre-step feed the
\* softmax its input_dim, and the graph loop feeds it the whole step output.
SoftmaxWidthsPerPath ==
  p.fusion = "NullFusion" =>
    /\ GraphLoopSoftmaxWidthIs(RnnCellDim + GetAttenContextDim)
    /\ FunctionalSoftmaxWidthIs(SoftmaxInputDim(p))
    /\ PreStepSoftmaxWidthIs(SoftmaxInputDim(p))

\* ------------------------------------------------------------ C28
\* The softmax logits of the iteration before this one, before the LM
\* adjustment.
PreviousSoftmaxLogits(b) ==
  IF p.fusion = "LmFusion" THEN TermOf(seq_out_tas.logits[time - 1][1][b])[3]
  ELSE seq_out_tas.logits[time - 1][1][b]

\* C28: under scheduled sampling the first iteration of the graph loop finds
\* the first target ids in prev_predicted_ids and feeds the first target id
\* for every example, whatever the uniform draws and groundtruth_p are;
\* every later iteration finds in prev_predicted_ids the ids the iteration
\* before it stored, which were sampled from the softmax logits of that
\* iteration.
C28_FirstIdIsGroundTruth ==
  [][(IterationStep /\ MaxLabelProbPositive(p)) =>
       \A b \in Batch :
         /\ time = 0 =>
              /\ CarriedMisc.prev_predicted_ids[b] = targets.ids[b][1]
              /\ cur_target_info'.id[b] = targets.ids[b][1]
              /\ cur_target_info'.emb[b] = target_embs[b][1]
         /\ time >= 1 =>
              /\ CarriedMisc.prev_predicted_ids = PrevPredictedIdsSeenAt(time)
              /\ multinomial_logits[1][b] = PreviousSoftmaxLogits(b)
         /\ heap'[decoder_step_state'.misc_states].prev_predicted_ids[b]
              \in Vocab
         /\ multinomial_logits'[1][b] = SoftmaxLogits(b)]_vars

\* C28's case: with groundtruth_p below 1 the first step was fed the first
\* target ids, and the second step was fed, for the first example, the id
\* sampled in the first step, which is neither its first nor its second
\* target id, and for the second example its ground truth.
C28_Witness ==
  /\ pc = "dynamic"
  /\ time = 2
  /\ MaxLabelProbPositive(p)
  /\ FracLess(CarriedMisc.groundtruth_p, Frac(1, 1))
  /\ PrevPredictedIdsSeenAt(1)[1] # targets.ids[1][1]
  /\ cur_target_info.id[1] = PrevPredictedIdsSeenAt(1)[1]
  /\ cur_target_info.id[1] # targets.ids[1][2]
  /\ cur_target_info.id[2] = targets.ids[2][2]

\* ------------------------------------------------------------ C29
\* What layer n (from 1) passed on after step t (from 1) of the
\* function-based unroller, read where the next layer, or the step output,
\* took it.
RunningOutputAt(t, n, b) ==
  IF n < p.rnn_layers
  THEN TermOf(accumulated_states[t].rnn_states[n + 1][b].m)[4][1]
  ELSE <<accumulated_states[t].step_outs[b][1]>>

\* The dropped-out cell output of layer n >= 2 in step t.
DroppedOutputAt(t, n, b) ==
  IF IsResidualLayer(n) THEN TermOf(RunningOutputAt(t, n, b))[3]
  ELSE RunningOutputAt(t, n, b)

\* The (layer, step) pairs of the steps done so far that had a dropout.
DropoutSites == (2..p.rnn_layers) \X (1..Len(accumulated_states))

\* The seed pair _ApplyDropout gives layer index i at time step t.
SeedPairOf(i, t) ==
  SeedPair(ApplyDropout(p, <<Zeros(RnnCellDim)>>, TRUE, i * 1000,
                        [global_step |-> global_step, time_step |-> t],
                        0)[1])

\* Time steps a whole multiple of the layer offset apart.
FarTimeSteps == {0, 1, 1000, 1001, 2000}

\* C29: a deterministic dropout of layer index i (from 0) at time step t is
\* seeded with (prng_seed + 1000 * i + global_step,
\* prng_seed + 1000 * i + t), and at one global step no two different pairs
\* of a layer index >= 1 and a time step have the same seed pair.
C29_SeedPairs ==
  (p.dropout /\ ~p.use_while_loop_based_unrolling
     /\ pc \in {"functional", "done"}) =>
    /\ \A ln \in DropoutSites : \A b \in Batch :
         /\ TermOf(DroppedOutputAt(ln[2], ln[1], b))[1] =
              "deterministic_dropout"
         /\ SeedPair(DroppedOutputAt(ln[2], ln[1], b)) =
              <<p.prng_seed + 1000 * (ln[1] - 1) + global_step,
                p.prng_seed + 1000 * (ln[1] - 1) + (ln[2] - 1)>>
    /\ \A x \in DropoutSites : \A y \in DropoutSites :
         x # y => SeedPair(DroppedOutputAt(x[2], x[1], 1)) #
                    SeedPair(DroppedOutputAt(y[2], y[1], 1))
    /\ \A i1 \in 1..MaxLayers : \A i2 \in 1..MaxLayers :
         \A t1 \in FarTimeSteps : \A t2 \in FarTimeSteps :
           /\ SeedPairOf(i1, t1) =
                <<p.prng_seed + 1000 * i1 + global_step,
                  p.prng_seed + 1000 * i1 + t1>>
           /\ <<i1, t1>> # <<i2, t2>> => SeedPairOf(i1, t1) # SeedPairOf(i2, t2)

C29_Witness ==
  /\ p.dropout
  /\ ~p.use_while_loop_based_unrolling
  /\ pc = "functional"
  /\ p.rnn_layers = 3
  /\ Len(accumulated_states) = 2
  /\ Cardinality({ SeedPair(DroppedOutputAt(ln[2], ln[1], 1))
                   : ln \in DropoutSites }) = 4
  /\ SeedPairOf(1, 1000)[2] = SeedPairOf(2, 0)[2]

\* ------------------------------------------------------------ C30
\* A pass is about to take one more step.
BeforeAStep ==
  pc \in {"dynamic", "functional"} /\ StepsDone < SeqLen(targets)

\* SingleDecodeStep of a decoder configured as p but with residual_start =
\* rs, on the carried state and the inputs of the next step, with
\* deterministic dropout or not and the dropout mask r.
StepWithResidualStart(rs, det, r) ==
  SingleDecodeStep([p EXCEPT !.residual_start = rs], heap, packed_src,
                   InputsAt(targets, target_embs, StepsDone),
                   decoder_step_state, det, r)

====
